---------------------------- MODULE Spec2Model ----------------------------
(***************************************************************************)
(* Gameplay simulation core of alaplaya: the player's attack state machine *)
(* and physics (entities/Player.ts), the collision boxes                   *)
(* (systems/CollisionManager.ts), the terrain height sampling              *)
(* (entities/Terrain.ts), the enemies (entities/Enemy.ts) and the combat   *)
(* coordination of WorldScene.update.                                      *)
(*                                                                         *)
(* Units.  Lengths are integers in tenths of a world unit (2.5 -> 25),     *)
(* velocities in tenths of a unit per second, frame durations deltaTime in *)
(* tenths of a second, and the wall clock Date.now()/1000 in tenths of a   *)
(* second.  Real divisions are rounded to the nearest integer (RoundDiv).  *)
(* Terrain.getHeightAt takes its coordinates in hundredths of a unit, so   *)
(* that every grid point is a position, and returns tenths.                *)
(*                                                                         *)
(* Time.  The state machine reads the wall clock only as                   *)
(* stateTime = Date.now()/1000 - attackStateStartTime, so the player       *)
(* carries stateTime itself: setAttackState resets it to 0 and the passing *)
(* of wall-clock time (Tick) increases it, up to MaxStateTime, which is    *)
(* not below any duration the state machine compares it with.              *)
(***************************************************************************)
EXTENDS Integers, Sequences, FiniteSets, TLC

VARIABLES
    terrainSeed,\* the outcome of Math.random() in Terrain.generateHeightMap
    player,     \* the fields of the Player object
    enemies,    \* EnemyManager.enemies, in spawn order
    lastReturn, \* the value returned by the last startAttack call
    visit,      \* history: what happened since the last entry to 'attacking'
    clicked,    \* the position that this run's startAttack calls aim at
    selectedEnemy, \* EnemyManager.selectedEnemy: the id of an enemy, 0 for null
    removed,    \* the enemies that removeEnemy has taken out of the manager
    lastCall,   \* history: the last call on an enemy or on the manager
    sample,     \* history: the last query of the terrain or of the boxes, and its result
    input       \* InputManager: mouseMovement, wheelDelta, and what was received

\* The state that the player's and the scene's operations leave alone
manager == <<selectedEnemy, removed, lastCall, sample, input>>

vars == <<terrainSeed, player, enemies, lastReturn, visit, clicked, manager>>

\* new InputManager(): no movement, no wheel delta, nothing received
newInput ==
    [mouseMovement |-> [x |-> 0, y |-> 0], wheelDelta |-> 0,
     events |-> 0, received |-> [x |-> 0, y |-> 0, wheel |-> 0]]

-----------------------------------------------------------------------------
(* Bounds of the model *)

MaxStateTime == 10  \* the time since the last state entry is counted up to here
MaxDt == 2          \* frame durations are 1..MaxDt tenths of a second
MaxSeed == 0        \* terrain random outcomes 0..MaxSeed
NumSlimes == 1      \* how many of the test slimes are spawned
MaxEvents == 4      \* mouse and wheel events counted between two frames
MaxFade == 3        \* the fallback death effect takes MaxFade frames

-----------------------------------------------------------------------------
(* Program constants *)

speed == 100                    \* 10 units/s
jumpForce == 150                \* 15 units/s
gravity == -500                 \* -50 units/s^2
terrainFollowSpeed == 8         \* 1/s
attackRange == 25               \* 2.5 units
attackDamage == 25
attackCooldownDuration == 2     \* 0.2 s
attackAnimationDuration == 10   \* 1.0 s
slimeMaxHealth == 100
terrainSize == 81               \* grid points per side
findThreshold == 10             \* 1.0 unit

\* null and undefined
Null == [null |-> TRUE]

-----------------------------------------------------------------------------
(* Arithmetic helpers (Math.abs, Math.max, Math.min, Math.floor, sqrt) *)

Abs(a) == IF a < 0 THEN -a ELSE a
Max(a, b) == IF a >= b THEN a ELSE b
Min(a, b) == IF a <= b THEN a ELSE b

\* a / b rounded to the nearest integer, b > 0
RoundDiv(a, b) == (2 * a + b) \div (2 * b)

\* floor of the square root, by bisection: lo * lo <= n < hi * hi
RECURSIVE SqrtBetween(_, _, _)
SqrtBetween(n, lo, hi) ==
    IF hi - lo <= 1 THEN lo
    ELSE LET mid == (lo + hi) \div 2
         IN IF mid * mid <= n THEN SqrtBetween(n, mid, hi) ELSE SqrtBetween(n, lo, mid)

\* (46340 is the largest root of a 32-bit integer)
ISqrt(n) == SqrtBetween(n, 0, Min(n, 46340) + 1)

Vec(x, y, z) == [x |-> x, y |-> y, z |-> z]

\* THREE.Vector3.distanceTo, squared (exact in integers)
DistSq(a, b) ==
    (a.x - b.x) * (a.x - b.x) + (a.y - b.y) * (a.y - b.y) + (a.z - b.z) * (a.z - b.z)

\* a.distanceTo(b) <= r
WithinDistance(a, b, r) == DistSq(a, b) <= r * r

-----------------------------------------------------------------------------
(* Terrain (entities/Terrain.ts) *)

\* Math.random() - 0.5) * 0.2 of generateHeightMap: one of -0.1, 0, 0.1 per
\* grid point, fixed by the seed drawn at construction
randomVariation(seed, i, j) == ((3 * i + 5 * j + 2 * seed) % 3) - 1

\* The deterministic part of generateHeightMap (baseHeight + detail1 +
\* detail2) in tenths, by the small-angle expansion of its sines and
\* cosines around the origin, where worldX = 1.25 (j - 40), worldZ = 1.25 (i - 40):
\*   height ~ 0.15 + 0.1225 worldX - 0.0075 worldZ
noiseHeight(i, j) == RoundDiv(150 + 153 * (j - 40) - 9 * (i - 40), 100)

\* heightMap[i][j] = Math.max(height + randomVariation, -1)
heightMap(seed, i, j) == Max(noiseHeight(i, j) + randomVariation(seed, i, j), -10)

\* Terrain.isWithinBounds, on coordinates in hundredths of a unit
isWithinBounds(x, z) == Abs(x) <= 5000 /\ Abs(z) <= 5000

\* generateHeightMap: worldX(j) = (j / (size - 1) - 0.5) * 100, and
\* worldZ(i) alike, in hundredths of a unit
worldCoordinate(index) == (index * 10000) \div (terrainSize - 1) - 5000

\* getHeightAt: exactJ = ((x / 100) + 0.5) * (size - 1), and exactI alike,
\* in thousandths of a grid step, for a coordinate in hundredths
exactIndex(coordinate) ==
    (coordinate * (terrainSize - 1) + 5000 * (terrainSize - 1)) \div 10

\* getHeightAt without the limits on the indices
cornersUnclamped(exactI, exactJ) ==
    [i0 |-> exactI \div 1000, i1 |-> exactI \div 1000 + 1,
     j0 |-> exactJ \div 1000, j1 |-> exactJ \div 1000 + 1,
     fi |-> exactI % 1000, fj |-> exactJ % 1000]

\* getHeightAt: the indices of the four grid points around the position
\* and the fractional parts fi, fj (in thousandths)
corners(exactI, exactJ) ==
    LET size == terrainSize
        i0 == exactI \div 1000
        i1 == Min(i0 + 1, size - 1)
        j0 == exactJ \div 1000
        j1 == Min(j0 + 1, size - 1)
    IN [i0 |-> Max(0, Min(size - 1, i0)), i1 |-> Max(0, Min(size - 1, i1)),
        j0 |-> Max(0, Min(size - 1, j0)), j1 |-> Max(0, Min(size - 1, j1)),
        fi |-> exactI - 1000 * i0, fj |-> exactJ - 1000 * j0]

\* getHeightAt: the bilinear interpolation of the four corner heights,
\* rounded to tenths of a unit
bilinear(seed, i0, i1, j0, j1, fi, fj) ==
    LET h00 == heightMap(seed, i0, j0)
        h01 == heightMap(seed, i0, j1)
        h10 == heightMap(seed, i1, j0)
        h11 == heightMap(seed, i1, j1)
        h0 == h00 * (1000 - fj) + h01 * fj
        h1 == h10 * (1000 - fj) + h11 * fj
    IN RoundDiv(h0 * (1000 - fi) + h1 * fi, 1000000)

\* The earlier getHeightAt: the height of the grid point at the floor of
\* the indices
nearestGridPoint(seed, exactI, exactJ) ==
    heightMap(seed, corners(exactI, exactJ).i0, corners(exactI, exactJ).j0)

\* getHeightAt from the exact indices on
interpolate(seed, exactI, exactJ) ==
    LET c == corners(exactI, exactJ)
    IN bilinear(seed, c.i0, c.i1, c.j0, c.j1, c.fi, c.fj)

\* getHeightAt with the two axes exchanged
getHeightAtTransposed(seed, x, z) ==
    IF ~isWithinBounds(x, z) THEN 0
    ELSE interpolate(seed, exactIndex(x), exactIndex(z))

\* Terrain.getHeightAt, on coordinates in hundredths of a unit
getHeightAt(seed, x, z) ==
    IF ~isWithinBounds(x, z) THEN 0
    ELSE interpolate(seed, exactIndex(z), exactIndex(x))

\* The elements of heightMap that getHeightAt reads
getHeightAtReads(x, z) ==
    IF ~isWithinBounds(x, z) THEN {}
    ELSE LET c == corners(exactIndex(z), exactIndex(x))
         IN {<<c.i0, c.j0>>, <<c.i0, c.j1>>, <<c.i1, c.j0>>, <<c.i1, c.j1>>}

\* Terrain.getHeightAt on a position in tenths of a unit, as the player's
\* position is kept
TerrainGetHeightAt(seed, x, z) == getHeightAt(seed, 10 * x, 10 * z)

-----------------------------------------------------------------------------
(* Collision boxes (systems/CollisionManager.ts) *)

\* The box WorldScene.initialize registers: the debug cube at (0, 1, 3),
\* size (2, 2, 2)
collisionBoxes == << [position |-> Vec(0, 10, 30), size |-> Vec(20, 20, 20)] >>

\* CollisionManager.getHeightAt: the highest box top under (x, z) that the
\* player is above
RECURSIVE HeightOver(_, _, _, _, _, _, _)
HeightOver(boxes, k, x, z, playerRadius, playerY, maxHeight) ==
    IF k > Len(boxes) THEN maxHeight
    ELSE
      LET box == boxes[k]
          boxMinX == box.position.x - box.size.x \div 2 - playerRadius
          boxMaxX == box.position.x + box.size.x \div 2 + playerRadius
          boxMinZ == box.position.z - box.size.z \div 2 - playerRadius
          boxMaxZ == box.position.z + box.size.z \div 2 + playerRadius
          boxTopHeight == box.position.y + box.size.y \div 2
          inside == x >= boxMinX /\ x <= boxMaxX /\ z >= boxMinZ /\ z <= boxMaxZ
          next == IF inside /\ playerY >= boxTopHeight - 1
                  THEN Max(maxHeight, boxTopHeight) ELSE maxHeight
      IN HeightOver(boxes, k + 1, x, z, playerRadius, playerY, next)

CollisionGetHeightAt(x, z, playerRadius, playerY) ==
    HeightOver(collisionBoxes, 1, x, z, playerRadius, playerY, 0)

\* CollisionManager.checkHorizontalCollision over a given list of boxes
horizontalCollision(boxes, newX, newZ, playerY, playerRadius, playerHeight) ==
    \E k \in 1..Len(boxes) :
      LET box == boxes[k]
          boxMinX == box.position.x - box.size.x \div 2
          boxMaxX == box.position.x + box.size.x \div 2
          boxMinZ == box.position.z - box.size.z \div 2
          boxMaxZ == box.position.z + box.size.z \div 2
          boxMinY == box.position.y - box.size.y \div 2
          boxMaxY == box.position.y + box.size.y \div 2
          xOverlap == newX - playerRadius < boxMaxX /\ newX + playerRadius > boxMinX
          zOverlap == newZ - playerRadius < boxMaxZ /\ newZ + playerRadius > boxMinZ
          yOverlap == playerY < boxMaxY /\ playerY + playerHeight > boxMinY
      IN xOverlap /\ zOverlap /\ yOverlap

\* CollisionManager.checkHorizontalCollision on the boxes of the scene
checkHorizontalCollision(newX, newZ, playerY, playerRadius, playerHeight) ==
    horizontalCollision(collisionBoxes, newX, newZ, playerY, playerRadius, playerHeight)

\* CollisionManager.boxesIntersect
boxesIntersect(pos1, size1, pos2, size2) ==
    LET min1 == Vec(pos1.x - size1.x \div 2, pos1.y - size1.y \div 2, pos1.z - size1.z \div 2)
        max1 == Vec(pos1.x + size1.x \div 2, pos1.y + size1.y \div 2, pos1.z + size1.z \div 2)
        min2 == Vec(pos2.x - size2.x \div 2, pos2.y - size2.y \div 2, pos2.z - size2.z \div 2)
        max2 == Vec(pos2.x + size2.x \div 2, pos2.y + size2.y \div 2, pos2.z + size2.z \div 2)
    IN /\ min1.x <= max2.x /\ max1.x >= min2.x
       /\ min1.y <= max2.y /\ max1.y >= min2.y
       /\ min1.z <= max2.z /\ max1.z >= min2.z

\* CollisionManager.checkCollision over a given list of boxes
checkCollision(boxes, position, playerSize) ==
    \E k \in 1..Len(boxes) :
        boxesIntersect(position, playerSize, boxes[k].position, boxes[k].size)

-----------------------------------------------------------------------------
(* Enemies (entities/Enemy.ts, entities/Slime.ts, systems/EnemyManager.ts) *)

\* WorldScene.spawnTestSlimes: (5,0,5), (-5,0,5), (0,0,8), (3,0,-3)
slimePositions == << Vec(50, 0, 50), Vec(-50, 0, 50), Vec(0, 0, 80), Vec(30, 0, -30) >>

\* The outcomes of loading '/models/slime.glb': the load fails and the
\* fallback sphere is built, or it yields a scene with some of the clips
\* that setupAnimations recognises ("hop" stands for a clip named idle,
\* hop or bounce, "death" for one named death or die); meshFirst tells
\* whether the first child of the scene is a mesh with a material
SlimeAssets ==
    { [loaded |-> FALSE, clips |-> {}, meshFirst |-> TRUE],
      [loaded |-> TRUE, clips |-> {"hop", "death"}, meshFirst |-> FALSE],
      [loaded |-> TRUE, clips |-> {"hop"}, meshFirst |-> TRUE],
      [loaded |-> TRUE, clips |-> {"hop"}, meshFirst |-> FALSE],
      [loaded |-> TRUE, clips |-> {}, meshFirst |-> TRUE] }

\* The asset of the slimes of the world scene: a model with both clips
slimeAsset == [loaded |-> TRUE, clips |-> {"hop", "death"}, meshFirst |-> FALSE]

\* new Slime(): the fields of Enemy after its constructor.  deathFade is
\* the progress of the fallback death effect (0: not started, MaxFade:
\* finished) and deathAnimations counts the death animations started, by
\* clip or by fallback effect
newSlime ==
    [position |-> Vec(0, 0, 0), health |-> slimeMaxHealth, maxHealth |-> slimeMaxHealth,
     isAlive |-> TRUE, isSelected |-> FALSE, model |-> "none", meshMaterial |-> FALSE,
     animations |-> {}, currentAnimation |-> "idle", deathFade |-> 0,
     deathAnimations |-> 0]

\* setPosition that brings the enemy back to life
setPositionRespawns(e, position) ==
    [e EXCEPT !.position = position, !.isAlive = TRUE, !.health = e.maxHealth]

\* Enemy.setPosition (Slime.setPosition adds originalY)
setPosition(e, position) == [e EXCEPT !.position = position]

\* Enemy.setSelected: the flag and the visibility of the selection ring
setSelected(e, selected) == [e EXCEPT !.isSelected = selected]

\* EnemyManager.createSlime: new Slime() followed by setPosition
createSlime(position) == setPosition(newSlime, position)

\* Slime.setupAnimations
setupAnimations(e, clips) ==
    LET found == (IF "hop" \in clips THEN {"hop", "idle"} ELSE {})
                 \cup (IF "death" \in clips THEN {"death"} ELSE {})
    IN [e EXCEPT !.animations = found,
                 !.currentAnimation = IF "hop" \in found THEN "hop" ELSE @]

\* Slime.initialize
initialize(e, asset) ==
    IF asset.loaded
    THEN LET loaded == [e EXCEPT !.model = "gltf", !.meshMaterial = asset.meshFirst]
         IN IF asset.clips # {} THEN setupAnimations(loaded, asset.clips) ELSE loaded
    ELSE [e EXCEPT !.model = "fallback", !.meshMaterial = TRUE]

\* EnemyManager.spawnSlime (addEnemy is the place in the sequence)
spawnSlime(position, asset) == initialize(createSlime(position), asset)

\* Enemy.playAnimation
playAnimation(e, animationName) ==
    IF animationName \notin e.animations \/ e.currentAnimation = animationName
    THEN e
    ELSE [e EXCEPT !.currentAnimation = animationName,
                   !.deathAnimations = IF animationName = "death" THEN @ + 1 ELSE @]

\* die that leaves the health where the hit has brought it
superDieKeepsHealth(e) ==
    IF ~e.isAlive THEN e
    ELSE playAnimation([e EXCEPT !.isAlive = FALSE], "death")

\* Enemy.die
superDie(e) ==
    IF ~e.isAlive THEN e
    ELSE playAnimation([e EXCEPT !.isAlive = FALSE, !.health = 0], "death")

\* Slime.die
die(e) ==
    LET dead == superDie(e)
    IN IF "death" \in dead.animations THEN playAnimation(dead, "death")
       ELSE IF dead.model # "none" /\ dead.meshMaterial
            THEN [dead EXCEPT !.deathFade = 1, !.deathAnimations = @ + 1]
            ELSE dead

\* takeDamage that never calls die
takeDamageNoDeath(e, damage) ==
    IF ~e.isAlive THEN e ELSE [e EXCEPT !.health = e.health - damage]

\* takeDamage without the check of the alive flag
takeDamageOfTheDead(e, damage) ==
    LET hit == [e EXCEPT !.health = e.health - damage]
    IN IF hit.health <= 0 THEN die(hit) ELSE hit

\* Enemy.takeDamage
takeDamage(e, damage) ==
    IF ~e.isAlive THEN e
    ELSE LET hit == [e EXCEPT !.health = e.health - damage]
         IN IF hit.health <= 0 THEN die(hit) ELSE hit

\* Slime.startHop: the hop clip is played when there is one
startHop(e) == IF "hop" \in e.animations THEN playAnimation(e, "hop") ELSE e

\* Slime.update.  Enemy.update moves the mixer and the ring only; hopDue
\* tells whether the slime is not hopping and its hop timer has reached
\* the interval
SlimeUpdate(e, hopDue) ==
    IF ~e.isAlive THEN e
    ELSE IF hopDue THEN startHop(e) ELSE e

\* The hop timers of the enemies: which of them are due in a frame
HopChoices(en) == [1..Len(en) -> BOOLEAN]

\* EnemyManager.update: every enemy is updated and none is removed
EnemyManagerUpdate(en, hopDue) == [k \in 1..Len(en) |-> SlimeUpdate(en[k], hopDue[k])]

\* Slime.die: animateDeath, the frame callback of the fallback death
\* effect, which scales and fades the model until its progress is 1
animateDeath(e) == IF e.deathFade = 0 \/ e.deathFade >= MaxFade THEN e
                   ELSE [e EXCEPT !.deathFade = @ + 1]

\* WorldScene.findEnemyAtPosition: the index of the first enemy within
\* the threshold of the position, 0 when there is none
findEnemyAtPosition(en, position) ==
    LET near == {k \in 1..Len(en) : WithinDistance(en[k].position, position, findThreshold)}
    IN IF near = {} THEN 0 ELSE CHOOSE k \in near : \A m \in near : k <= m

\* WorldScene.isEnemyAliveAtPosition, the player's isTargetAliveCallback
isEnemyAliveAtPosition(en, position) ==
    LET k == findEnemyAtPosition(en, position)
    IN IF k = 0 THEN FALSE ELSE en[k].isAlive

-----------------------------------------------------------------------------
(* Input (systems/InputManager.ts) *)

KeyCodes == {"KeyW", "KeyS", "KeyA", "KeyD", "Space"}

\* The key states a frame is run with: nothing pressed, one movement key,
\* two opposite keys (no movement), backward and sideways
KeySets == { {}, {"KeyW"}, {"KeyW", "KeyS"}, {"KeyS", "KeyD"} }

\* InputManager.getMovementInput
getMovementInput(keys) ==
    [forward |-> (IF "KeyW" \in keys THEN 1 ELSE 0) + (IF "KeyS" \in keys THEN -1 ELSE 0),
     right   |-> (IF "KeyD" \in keys THEN 1 ELSE 0) + (IF "KeyA" \in keys THEN -1 ELSE 0),
     up      |-> IF "Space" \in keys THEN 1 ELSE 0]

\* hasMovementInput of Player.update
HasMovementInput(keys) ==
    getMovementInput(keys).forward # 0 \/ getMovementInput(keys).right # 0

\* ThirdPersonCamera.getForwardDirection / getRightDirection of the camera
\* as constructed (theta = 0): forward (0,0,-1), right = forward x up = (1,0,0)
defaultCamera == [forward |-> Vec(0, 0, -1), right |-> Vec(1, 0, 0)]

-----------------------------------------------------------------------------
(* Player (entities/Player.ts) *)

\* The fields of a Player after its constructor
newPlayer ==
    [model |-> FALSE,
     loadAttempts |-> 0,
     loadPending |-> FALSE,
     fallbackModel |-> FALSE,
     position |-> Vec(0, 50, 0),
     velocityY |-> 0,
     isOnGround |-> TRUE,
     attackState |-> "idle",
     attackTarget |-> Null,
     stateTime |-> MaxStateTime,
     damageDealtThisAttack |-> FALSE,
     shouldDealDamageThisFrame |-> FALSE,
     isTargetAliveCallback |-> FALSE]

\* Player.initialize up to its await: loader.loadAsync is called
initializeBegins(p) == [p EXCEPT !.loadAttempts = @ + 1, !.loadPending = TRUE]

\* Player.initialize after its await: the loaded scene becomes the model,
\* or the load has failed and createFallbackModel builds one
loadResolves(p, succeeded) ==
    [p EXCEPT !.loadPending = FALSE, !.model = TRUE, !.fallbackModel = ~succeeded]

\* Player.setAttackState: attackStateStartTime = Date.now() / 1000
setAttackState(p, newState) ==
    IF p.attackState = newState THEN p
    ELSE LET q == [p EXCEPT !.attackState = newState, !.stateTime = 0]
         IN IF newState = "attacking"
            THEN [q EXCEPT !.damageDealtThisAttack = FALSE,
                           !.shouldDealDamageThisFrame = FALSE]
            ELSE q

\* Player.moveTowardsTarget: direction = (target - position).normalize(),
\* position.x/z += direction.x/z * speed * deltaTime (faceTarget only turns
\* the visual model)
moveTowardsTarget(p, deltaTime) ==
    IF p.attackTarget = Null THEN p
    ELSE LET d == Vec(p.attackTarget.x - p.position.x,
                      p.attackTarget.y - p.position.y,
                      p.attackTarget.z - p.position.z)
             len == ISqrt(100 * (d.x * d.x + d.y * d.y + d.z * d.z))  \* in hundredths
             step == speed * deltaTime                                 \* in hundredths
         IN IF len = 0 THEN p
            ELSE [p EXCEPT !.position.x = @ + RoundDiv(d.x * step, len),
                           !.position.z = @ + RoundDiv(d.z * step, len)]

\* shouldContinueAttacking without the liveness callback
shouldContinueAttackingUnchecked(p, en) ==
    IF p.attackTarget = Null THEN FALSE
    ELSE IF ~WithinDistance(p.position, p.attackTarget, attackRange * 2) THEN FALSE
    ELSE TRUE

\* Player.shouldContinueAttacking
shouldContinueAttacking(p, en) ==
    IF p.attackTarget = Null THEN FALSE
    ELSE IF p.isTargetAliveCallback /\ ~isEnemyAliveAtPosition(en, p.attackTarget) THEN FALSE
    ELSE IF ~WithinDistance(p.position, p.attackTarget, attackRange * 2) THEN FALSE
    ELSE TRUE

\* The 'attacking' case without the damageDealtThisAttack latch
attackingStepUnlatched(p, stateTime) ==
    LET dealt == IF 2 * stateTime >= attackAnimationDuration
                 THEN [p EXCEPT !.damageDealtThisAttack = TRUE,
                                !.shouldDealDamageThisFrame = TRUE]
                 ELSE p
    IN IF stateTime >= attackAnimationDuration
       THEN setAttackState(dealt, "cooldown")
       ELSE dealt

\* The 'attacking' case with the end of the animation tested first
attackingStepEndFirst(p, stateTime) ==
    IF stateTime >= attackAnimationDuration
    THEN setAttackState(p, "cooldown")
    ELSE IF ~p.damageDealtThisAttack /\ 2 * stateTime >= attackAnimationDuration
         THEN [p EXCEPT !.damageDealtThisAttack = TRUE,
                        !.shouldDealDamageThisFrame = TRUE]
         ELSE p

\* The 'attacking' case raising the signal without waiting for half of
\* the animation
attackingStepAtOnce(p, stateTime) ==
    LET dealt == IF ~p.damageDealtThisAttack
                 THEN [p EXCEPT !.damageDealtThisAttack = TRUE,
                                !.shouldDealDamageThisFrame = TRUE]
                 ELSE p
    IN IF stateTime >= attackAnimationDuration
       THEN setAttackState(dealt, "cooldown")
       ELSE dealt

\* The 'attacking' case of Player.updateAttackStateMachine
attackingStep(p, stateTime) ==
    LET dealt == IF ~p.damageDealtThisAttack /\ 2 * stateTime >= attackAnimationDuration
                 THEN [p EXCEPT !.damageDealtThisAttack = TRUE,
                                !.shouldDealDamageThisFrame = TRUE]
                 ELSE p
    IN IF stateTime >= attackAnimationDuration
       THEN setAttackState(dealt, "cooldown")
       ELSE dealt

\* The 'cooldown' case striking again without a new approach
cooldownStepRestrikes(p, stateTime, en) ==
    IF stateTime >= attackCooldownDuration
    THEN IF shouldContinueAttacking(p, en)
         THEN setAttackState(p, "attacking")
         ELSE [setAttackState(p, "idle") EXCEPT !.attackTarget = Null]
    ELSE p

\* The 'cooldown' case of Player.updateAttackStateMachine
cooldownStep(p, stateTime, en) ==
    IF stateTime >= attackCooldownDuration
    THEN IF shouldContinueAttacking(p, en)
         THEN setAttackState(p, "moving_to_target")
         ELSE [setAttackState(p, "idle") EXCEPT !.attackTarget = Null]
    ELSE p

\* The 'moving_to_target' case with a strict range test
movingStepStrictRange(p, deltaTime) ==
    IF p.attackTarget = Null THEN setAttackState(p, "idle")
    ELSE IF DistSq(p.position, p.attackTarget) < attackRange * attackRange
         THEN setAttackState(p, "attacking")
         ELSE moveTowardsTarget(p, deltaTime)

\* The 'moving_to_target' case of Player.updateAttackStateMachine
movingStep(p, deltaTime) ==
    IF p.attackTarget = Null THEN setAttackState(p, "idle")
    ELSE IF WithinDistance(p.position, p.attackTarget, attackRange)
         THEN setAttackState(p, "attacking")
         ELSE moveTowardsTarget(p, deltaTime)

\* Player.updateAttackStateMachine
updateAttackStateMachine(p, deltaTime, en) ==
    LET stateTime == p.stateTime
    IN CASE p.attackState = "idle" -> p
         [] p.attackState = "moving_to_target" -> movingStep(p, deltaTime)
         [] p.attackState = "attacking" -> attackingStep(p, stateTime)
         [] p.attackState = "cooldown" -> cooldownStep(p, stateTime, en)

\* cancelAttack that keeps the target
cancelAttackKeepsTarget(p) ==
    [setAttackState(p, "idle") EXCEPT !.damageDealtThisAttack = FALSE,
                                         !.shouldDealDamageThisFrame = FALSE]

\* Player.cancelAttack
cancelAttack(p) ==
    [setAttackState(p, "idle") EXCEPT !.attackTarget = Null,
                                         !.damageDealtThisAttack = FALSE,
                                         !.shouldDealDamageThisFrame = FALSE]

\* startAttack without the test of the state
startAttackAnyState(p, targetPosition) ==
    setAttackState([p EXCEPT !.attackTarget = targetPosition], "moving_to_target")

\* Player.startAttack: the player after the call
startAttack(p, targetPosition) ==
    IF p.attackState # "idle" THEN p
    ELSE setAttackState([p EXCEPT !.attackTarget = targetPosition], "moving_to_target")

\* Player.startAttack: the value returned
startAttackReturns(p) == IF p.attackState # "idle" THEN "false" ELSE "true"

\* Player.handleMovement (the animation choice only turns the visual model)
handleMovement(p, deltaTime, movement, camera, hasMovementInput) ==
    LET jumped == IF movement.up > 0 /\ p.isOnGround
                  THEN [p EXCEPT !.velocityY = jumpForce, !.isOnGround = FALSE]
                  ELSE p
        hx == IF camera # Null /\ hasMovementInput
              THEN camera.forward.x * movement.forward + camera.right.x * movement.right
              ELSE 0
        hz == IF camera # Null /\ hasMovementInput
              THEN camera.forward.z * movement.forward + camera.right.z * movement.right
              ELSE 0
        len == ISqrt(10000 * (hx * hx + hz * hz))        \* in hundredths
        currentSpeed == IF movement.forward < 0
                           /\ Abs(movement.forward) > Abs(movement.right)
                        THEN speed \div 2 ELSE speed
    IN IF len > 0
       THEN [jumped EXCEPT
               !.position.x = @ + RoundDiv(hx * currentSpeed * deltaTime * 10, len),
               !.position.z = @ + RoundDiv(hz * currentSpeed * deltaTime * 10, len)]
       ELSE jumped

\* Player.applyPhysics
applyPhysics(p, deltaTime, seed) ==
    LET vy == p.velocityY + (gravity * deltaTime) \div 10
        y == p.position.y + RoundDiv(vy * deltaTime, 10)
        terrainHeight == TerrainGetHeightAt(seed, p.position.x, p.position.z)
        collisionHeight == CollisionGetHeightAt(p.position.x, p.position.z, 5, y)
        groundHeight == Max(terrainHeight, collisionHeight)
        isFalling == vy < 0
        isJumping == vy > 0
        q == [p EXCEPT !.velocityY = vy, !.position.y = y]
        heightDiff == groundHeight - y
    IN IF y <= groundHeight /\ isFalling
       THEN [q EXCEPT !.position.y = groundHeight, !.velocityY = 0, !.isOnGround = TRUE]
       ELSE IF p.isOnGround /\ ~isJumping
       THEN IF Abs(heightDiff) < 30
            THEN IF Abs(heightDiff) < 1
                 THEN [q EXCEPT !.position.y = groundHeight]
                 ELSE [q EXCEPT !.position.y =
                                  @ + RoundDiv(heightDiff * terrainFollowSpeed * deltaTime, 10)]
            ELSE [q EXCEPT !.isOnGround = FALSE]
       ELSE IF isJumping
       THEN [q EXCEPT !.isOnGround = FALSE]
       ELSE q

\* Player.update without the check of the model
PlayerUpdateUnloaded(p, deltaTime, keys, camera, en, seed) ==
    LET reset == [p EXCEPT !.shouldDealDamageThisFrame = FALSE]
        stepped == updateAttackStateMachine(reset, deltaTime, en)
        movement == getMovementInput(keys)
        hasMovementInput == HasMovementInput(keys)
        cancelled == IF hasMovementInput /\ stepped.attackState # "idle"
                     THEN cancelAttack(stepped) ELSE stepped
        canMove == cancelled.attackState \in {"idle", "moving_to_target"}
        moved == IF canMove
                 THEN handleMovement(cancelled, deltaTime, movement, camera, hasMovementInput)
                 ELSE cancelled
    IN applyPhysics(moved, deltaTime, seed)

\* Player.update with handleMovement called in every attack state
PlayerUpdateAlwaysMoves(p, deltaTime, keys, camera, en, seed) ==
    IF ~p.model THEN p
    ELSE
      LET reset == [p EXCEPT !.shouldDealDamageThisFrame = FALSE]
          stepped == updateAttackStateMachine(reset, deltaTime, en)
          movement == getMovementInput(keys)
          hasMovementInput == HasMovementInput(keys)
          cancelled == IF hasMovementInput /\ stepped.attackState # "idle"
                       THEN cancelAttack(stepped) ELSE stepped
          moved == handleMovement(cancelled, deltaTime, movement, camera, hasMovementInput)
      IN applyPhysics(moved, deltaTime, seed)

\* Player.update
PlayerUpdate(p, deltaTime, keys, camera, en, seed) ==
    IF ~p.model THEN p
    ELSE
      LET reset == [p EXCEPT !.shouldDealDamageThisFrame = FALSE]
          stepped == updateAttackStateMachine(reset, deltaTime, en)
          movement == getMovementInput(keys)
          hasMovementInput == HasMovementInput(keys)
          cancelled == IF hasMovementInput /\ stepped.attackState # "idle"
                       THEN cancelAttack(stepped) ELSE stepped
          canMove == cancelled.attackState \in {"idle", "moving_to_target"}
          moved == IF canMove
                   THEN handleMovement(cancelled, deltaTime, movement, camera, hasMovementInput)
                   ELSE cancelled
      IN applyPhysics(moved, deltaTime, seed)

-----------------------------------------------------------------------------
(* The world (scenes/WorldScene.ts) and the calls made on it *)

\* The local attackRange of WorldScene.update, 2.5 units
sceneAttackRange == 25

\* The combat block of WorldScene.update: the live enemies in range take
\* the player's attack damage when the damage signal is set
InRangeAlive(p, en, k) ==
    en[k].isAlive /\ WithinDistance(p.position, en[k].position, sceneAttackRange)

\* A combat block that damages the enemy at the locked target only
dealDamageTargetOnly(p, en) ==
    IF p.shouldDealDamageThisFrame /\ p.attackTarget # Null
    THEN [k \in 1..Len(en) |->
            IF InRangeAlive(p, en, k) /\ k = findEnemyAtPosition(en, p.attackTarget)
            THEN takeDamage(en[k], attackDamage) ELSE en[k]]
    ELSE en

dealDamage(p, en) ==
    IF p.shouldDealDamageThisFrame
    THEN [k \in 1..Len(en) |->
            IF InRangeAlive(p, en, k) THEN takeDamage(en[k], attackDamage) ELSE en[k]]
    ELSE en

\* A last block that never cancels
cancelIfTargetDeadNever(p, en) == p

\* The last block of WorldScene.update: cancel when the enemy at the
\* player's target is dead
cancelIfTargetDead(p, en) ==
    IF p.attackTarget = Null THEN p
    ELSE LET k == findEnemyAtPosition(en, p.attackTarget)
         IN IF k # 0 /\ ~en[k].isAlive THEN cancelAttack(p) ELSE p

\* What the history records for one frame: signals counts the frames that
\* ended Player.update with the damage signal set and hits[k] the damage
\* applications to enemy k, both since the last entry to 'attacking';
\* count is the number of entries to 'attacking' since the last accepted
\* startAttack
recordVisit(v, before, after, en) ==
    LET entered == after.attackState = "attacking" /\ before.attackState # "attacking"
        base == IF entered
                THEN [signals |-> 0, hits |-> [k \in 1..Len(en) |-> 0], count |-> v.count + 1]
                ELSE v
    IN [signals |-> base.signals + (IF after.shouldDealDamageThisFrame THEN 1 ELSE 0),
        hits |-> [k \in 1..Len(en) |->
                    base.hits[k] + (IF after.shouldDealDamageThisFrame
                                       /\ InRangeAlive(after, en, k) THEN 1 ELSE 0)],
        count |-> base.count]

\* The targets of startAttack, one per run: the first slime, the slime
\* behind the collision box, and a point at exactly the attack range from
\* the player's resting place at the origin
AttackTargets == {slimePositions[1], slimePositions[3], Vec(15, 3, 20)}

\* The state after the WorldScene constructor, with the target of the run
InitFor(targets) ==
    /\ terrainSeed \in 0..MaxSeed
    /\ player = newPlayer
    /\ enemies = << >>
    /\ lastReturn = "none"
    /\ visit = [signals |-> 0, hits |-> << >>, count |-> 0]
    /\ clicked \in targets
    /\ selectedEnemy = 0
    /\ removed = << >>
    /\ lastCall = Null
    /\ sample = Null
    /\ input = newInput

Init == InitFor(AttackTargets)

\* WorldScene.initialize: the player's model is loaded (or its fallback
\* built), the test slimes are spawned and the liveness callback is set
Initialize ==
    /\ ~player.model
    /\ player' = [loadResolves(initializeBegins(player), TRUE)
                      EXCEPT !.isTargetAliveCallback = TRUE]
    /\ enemies' = [k \in 1..Min(NumSlimes, Len(slimePositions)) |->
                     spawnSlime(slimePositions[k], slimeAsset)]
    /\ visit' = [visit EXCEPT !.hits = [k \in 1..Min(NumSlimes, Len(slimePositions)) |-> 0]]
    /\ UNCHANGED <<terrainSeed, lastReturn, clicked>>
    /\ UNCHANGED manager

\* Wall-clock time passes between two calls.  The state machine reads
\* stateTime in 'attacking' and 'cooldown' only, and every state entry
\* resets it, so its growth elsewhere is not tracked
Tick ==
    /\ player.attackState \in {"attacking", "cooldown"}
    /\ player.stateTime < MaxStateTime
    /\ player' = [player EXCEPT !.stateTime = @ + 1]
    /\ UNCHANGED <<terrainSeed, enemies, lastReturn, visit, clicked>>
    /\ UNCHANGED manager

\* player.startAttack(target)
StartAttack(target) ==
    /\ player' = startAttack(player, target)
    /\ lastReturn' = startAttackReturns(player)
    /\ visit' = IF startAttackReturns(player) = "true" THEN [visit EXCEPT !.count = 0] ELSE visit
    /\ UNCHANGED <<terrainSeed, enemies, clicked>>
    /\ UNCHANGED manager

\* player.cancelAttack()
CancelAttack ==
    /\ player' = cancelAttack(player)
    /\ UNCHANGED <<terrainSeed, enemies, lastReturn, visit, clicked>>
    /\ UNCHANGED manager

\* WorldScene.update(deltaTime, inputManager, camera)
WorldSceneUpdate(deltaTime, keys, camera) ==
    LET updated == PlayerUpdate(player, deltaTime, keys, camera, enemies, terrainSeed)
    IN /\ enemies' \in {dealDamage(updated, EnemyManagerUpdate(enemies, hopDue)) :
                           hopDue \in HopChoices(enemies)}
       /\ player' = cancelIfTargetDead(updated, enemies')
       /\ visit' = recordVisit(visit, player, updated, enemies)
       /\ UNCHANGED <<terrainSeed, lastReturn, clicked>>
       /\ UNCHANGED manager

Frames == 1..MaxDt

\* One frame of the game loop, which main() starts after game.initialize()
\* has resolved: SceneManager.update calls worldScene.update(deltaTime,
\* inputManager) and passes no camera
SceneManagerUpdate(deltaTime, keys) ==
    /\ player.model
    /\ WorldSceneUpdate(deltaTime, keys, Null)

Next ==
    \/ Initialize
    \/ Tick
    \/ StartAttack(clicked)
    \/ CancelAttack
    \/ \E deltaTime \in Frames, keys \in KeySets : SceneManagerUpdate(deltaTime, keys)

Spec == Init /\ [][Next]_vars

\* The run of one attack command: the player, which no manual input moves
\* from the origin, is sent once against the first slime, at (5, 0, 5)
E2EInit == Init /\ clicked = slimePositions[1]

FirstStartAttack == lastReturn = "none" /\ StartAttack(clicked)

E2ENext ==
    \/ Initialize
    \/ Tick
    \/ FirstStartAttack
    \/ \E deltaTime \in Frames : SceneManagerUpdate(deltaTime, {})

SpecE2E == E2EInit /\ [][E2ENext]_vars

\* The runs in which the player is sent to a point that is not an enemy's
\* place: a point 2.1 beyond the first slime, which the player reaches by
\* stopping next to that slime, and the point near the origin, from which
\* no slime is in range
CombatTargets == {Vec(65, 0, 65), Vec(15, 3, 20)}

SpecCombat == InitFor(CombatTargets) /\ [][Next]_vars

-----------------------------------------------------------------------------
(* The attack state machine *)

\* C1: during one visit to 'attacking' the damage signal is set after at
\* most one Player.update, each enemy is damaged at most once (and by no
\* more than attackDamage), and damageDealtThisAttack goes from true to
\* false only on entry to 'attacking' or on a cancellation to 'idle'.
C1_DamageAtMostOncePerVisit ==
    [][ /\ visit'.signals <= 1
        /\ \A k \in 1..Len(visit'.hits) : visit'.hits[k] <= 1
        /\ \A k \in 1..Len(enemies) :
             enemies'[k].health >= Max(enemies[k].health - attackDamage, 0)
        /\ (player.damageDealtThisAttack /\ ~player'.damageDealtThisAttack)
             => \/ player.attackState # "attacking" /\ player'.attackState = "attacking"
                \/ player'.attackState = "idle" /\ player'.attackTarget = Null ]_vars

\* A later frame of the same visit: the damage was dealt in an earlier
\* frame, the signal has been cleared and the latch is still set
C1_LaterFrameOfVisit ==
    /\ player.attackState = "attacking"
    /\ player.damageDealtThisAttack
    /\ ~player.shouldDealDamageThisFrame
    /\ visit.signals = 1
    /\ visit.hits[1] = 1
    /\ enemies[1].health = slimeMaxHealth - attackDamage

\* C2: a visit to 'attacking' that ends with the transition to 'cooldown'
\* has set the damage signal in exactly one frame, whatever the frame
\* durations, and no frame of the cooldown sets it again.
C2_SignalExactlyOncePerCycle ==
    player.attackState = "cooldown" => visit.signals = 1

\* The whole animation passed within one frame: the frame that set the
\* signal is the frame that entered 'cooldown'
C2_SingleLongFrame ==
    /\ player.attackState = "cooldown"
    /\ player.shouldDealDamageThisFrame
    /\ visit.signals = 1
    /\ visit.hits[1] = 1

\* C3: a Player.update with non-zero movement input in 'moving_to_target',
\* 'attacking' or 'cooldown' ends in 'idle' with the target null and both
\* damage flags false.
C3_MovementInputCancels ==
    [][ \A deltaTime \in Frames, keys \in KeySets :
          ( /\ player.attackState # "idle"
            /\ HasMovementInput(keys)
            /\ SceneManagerUpdate(deltaTime, keys) )
          => LET updated == PlayerUpdate(player, deltaTime, keys, Null, enemies, terrainSeed)
             IN /\ updated.attackState = "idle"
                /\ updated.attackTarget = Null
                /\ ~updated.damageDealtThisAttack
                /\ ~updated.shouldDealDamageThisFrame ]_vars

\* C4: the state machine starts in 'idle' and only makes the transitions
\* idle -> moving_to_target (an accepted startAttack), moving_to_target ->
\* attacking (within attackRange), attacking -> cooldown (animation over),
\* cooldown -> moving_to_target (cooldown over, target kept) and any
\* non-idle state -> idle (target cleared).
C4_OnlyListedTransitions ==
    /\ player.attackState = "idle"
    /\ [][ \/ player'.attackState = player.attackState
           \/ /\ player.attackState = "idle"
              /\ player'.attackState = "moving_to_target"
              /\ lastReturn' = "true"
              /\ player'.attackTarget = clicked
           \/ /\ player.attackState = "moving_to_target"
              /\ player'.attackState = "attacking"
              /\ WithinDistance(player.position, player.attackTarget, attackRange)
           \/ /\ player.attackState = "attacking"
              /\ player'.attackState = "cooldown"
              /\ player.stateTime >= attackAnimationDuration
           \/ /\ player.attackState = "cooldown"
              /\ player'.attackState = "moving_to_target"
              /\ player.stateTime >= attackCooldownDuration
              /\ player'.attackTarget = player.attackTarget
           \/ /\ player.attackState # "idle"
              /\ player'.attackState = "idle"
              /\ player'.attackTarget = Null ]_vars

\* Back in 'moving_to_target' after a cooldown: the latch of the last
\* attack is still set
C4_SecondApproach ==
    /\ player.attackState = "moving_to_target"
    /\ player.damageDealtThisAttack
    /\ visit.signals = 1

\* C5: startAttack returns true exactly when the state is 'idle'; a
\* rejected call leaves the state, the target, the entry time and the
\* damage flags as they were.
C5_StartAttackOnlyFromIdle ==
    [][ StartAttack(clicked)
        => /\ lastReturn' = "true" <=> player.attackState = "idle"
           /\ lastReturn' \in {"true", "false"}
           /\ lastReturn' = "false" => player' = player ]_vars

\* A call rejected in the middle of an attack
C5_RejectedCall ==
    /\ lastReturn = "false"
    /\ player.attackState = "attacking"
    /\ player.attackTarget = clicked
    /\ player.stateTime > 0

\* C6: in 'cooldown', once attackCooldownDuration has passed, the state
\* machine goes to 'idle' and clears the target when the target is unset,
\* the liveness callback reports it dead, or it is farther than twice the
\* attack range, and otherwise to 'moving_to_target' keeping the target;
\* before that it stays in 'cooldown'.
C6_CooldownDecision ==
    player.attackState = "cooldown" =>
      \A deltaTime \in Frames :
        LET after == updateAttackStateMachine(player, deltaTime, enemies)
            stop == \/ player.attackTarget = Null
                    \/ /\ player.isTargetAliveCallback
                       /\ ~isEnemyAliveAtPosition(enemies, player.attackTarget)
                    \/ DistSq(player.position, player.attackTarget)
                         > (2 * attackRange) * (2 * attackRange)
        IN IF player.stateTime < attackCooldownDuration
           THEN after = player
           ELSE IF stop
           THEN after.attackState = "idle" /\ after.attackTarget = Null
           ELSE /\ after.attackState = "moving_to_target"
                /\ after.attackTarget = player.attackTarget

\* The cooldown ended with no live enemy at the target: the player is idle,
\* the target is cleared, and the latch (which only a cancellation clears)
\* is still set
C6_StoppedAfterCooldown ==
    /\ player.attackState = "idle"
    /\ player.attackTarget = Null
    /\ player.damageDealtThisAttack
    /\ clicked = slimePositions[3]
    /\ visit.signals = 1

\* C7: startAttack in 'idle' sets 'moving_to_target' at the call, and when
\* the target is at attackRange or nearer the next Player.update enters
\* 'attacking' (unless that same update is cancelled by movement input)
\* without moving the player horizontally.
C7_InRangeAttacksNextUpdate ==
    [][ /\ (StartAttack(clicked) /\ player.attackState = "idle")
             => player'.attackState = "moving_to_target"
        /\ \A deltaTime \in Frames, keys \in KeySets :
             ( /\ player.attackState = "moving_to_target"
               /\ DistSq(player.position, player.attackTarget) <= attackRange * attackRange
               /\ SceneManagerUpdate(deltaTime, keys) )
             => LET reset == [player EXCEPT !.shouldDealDamageThisFrame = FALSE]
                    stepped == updateAttackStateMachine(reset, deltaTime, enemies)
                    updated == PlayerUpdate(player, deltaTime, keys, Null, enemies, terrainSeed)
                IN /\ stepped.attackState = "attacking"
                   /\ stepped.position = player.position
                   /\ updated.position.x = player.position.x
                   /\ updated.position.z = player.position.z
                   /\ ~HasMovementInput(keys) => updated.attackState = "attacking" ]_vars

\* The target at exactly attackRange from the player standing at the
\* origin: the player attacks from where it stands
C7_AttackingFromTheOrigin ==
    /\ player.attackState = "attacking"
    /\ player.position.x = 0
    /\ player.position.z = 0
    /\ player.attackTarget = Vec(15, 3, 20)
    /\ DistSq(player.position, player.attackTarget) = attackRange * attackRange

-----------------------------------------------------------------------------
(* Combat, end to end *)

\* C8: the player is sent from the origin against the slime at (5, 0, 5),
\* health 100, with no manual input: the n-th attack cycle that reaches
\* 'cooldown' finds the slime alive with health 100 - 25 n (75 after the
\* first), and once the fourth attack is over the slime is dead, its health
\* 0, and there is no fifth.
C8_FourAttacksKill ==
    player.model =>
      /\ visit.count <= 4
      /\ player.attackState = "cooldown"
           => /\ visit.count >= 1
              /\ enemies[1].isAlive
              /\ enemies[1].health = slimeMaxHealth - attackDamage * visit.count
      /\ (visit.count = 1 /\ player.attackState = "cooldown") => enemies[1].health = 75
      /\ (visit.count = 4 /\ player.attackState # "attacking")
           => ~enemies[1].isAlive /\ enemies[1].health = 0
      /\ ~enemies[1].isAlive => visit.count = 4

\* The slime has been killed by the fourth attack
C8_SlimeKilled ==
    /\ player.model
    /\ ~enemies[1].isAlive
    /\ enemies[1].health = 0
    /\ visit.count = 4
    /\ player.attackState = "idle"
    /\ player.attackTarget = Null

-----------------------------------------------------------------------------
(* Collision *)

\* The player's volume, radius 0.5 and height 2, overlaps a registered box
OverlapsABox(p) ==
    checkHorizontalCollision(p.position.x, p.position.z, p.position.y, 5, 20)

\* The player stands on the terrain
StandsOnTerrain(p) ==
    /\ p.isOnGround
    /\ p.velocityY = 0
    /\ p.position.y = TerrainGetHeightAt(terrainSeed, p.position.x, p.position.z)

\* C9: after a Player.update the player's volume overlaps no registered box
\* that it did not overlap before the update; stated for a player that
\* stands on the terrain, whose way into a box is horizontal.
C9_NoNewBoxOverlap ==
    [][ (StandsOnTerrain(player) /\ ~OverlapsABox(player)) => ~OverlapsABox(player') ]_vars

\* The top of the registered box and its footprint widened by the player's
\* radius
boxTop == collisionBoxes[1].position.y + collisionBoxes[1].size.y \div 2

OverFootprint(p) ==
    /\ Abs(p.position.x - collisionBoxes[1].position.x) <= collisionBoxes[1].size.x \div 2 + 5
    /\ Abs(p.position.z - collisionBoxes[1].position.z) <= collisionBoxes[1].size.z \div 2 + 5

\* C10: a player that starts a frame above the top of a box, over its
\* widened footprint, and ends the frame over the footprint has not gone
\* below the top: it is still above it, or it has landed at exactly the top
\* with no vertical velocity and isOnGround set.
C10_LandsOnBoxTop ==
    [][ ( /\ player.position.y >= boxTop
          /\ OverFootprint(player)
          /\ OverFootprint(player') )
        => \/ player'.position.y > boxTop
           \/ /\ player'.position.y = boxTop
              /\ player'.velocityY = 0
              /\ player'.isOnGround ]_vars

-----------------------------------------------------------------------------
(* The combat block and the dead-target cancellation of WorldScene.update *)

\* The frame ended Player.update with the damage signal set (the frame that
\* enters 'attacking' never sets it: the entry resets the state time)
SignalFrame == visit'.signals = visit.signals + 1

\* C11: in a WorldScene.update whose Player.update set the damage signal,
\* every live enemy within 2.5 of the player's position loses exactly
\* attackDamage, or dies with health 0 when that does not leave it any,
\* whether or not it stands at the locked target; every other enemy, and
\* every enemy in every other frame, is left as it was.
C11_DamageToAllInRange ==
    [][ \A k \in 1..Len(enemies) :
          IF /\ SignalFrame
             /\ enemies[k].isAlive
             /\ DistSq(player'.position, enemies[k].position)
                  <= sceneAttackRange * sceneAttackRange
          THEN /\ enemies'[k].health = Max(enemies[k].health - attackDamage, 0)
               /\ enemies'[k].isAlive = (enemies[k].health - attackDamage > 0)
               /\ enemies'[k].position = enemies[k].position
          ELSE enemies'[k] = enemies[k] ]_vars

\* The slime has been damaged by an attack aimed at a point where no enemy
\* stands
C11_BystanderHit ==
    /\ player.model
    /\ clicked = Vec(65, 0, 65)
    /\ findEnemyAtPosition(enemies, clicked) = 0
    /\ enemies[1].health = slimeMaxHealth - attackDamage
    /\ visit.hits[1] = 1

\* C12: no WorldScene.update ends with the player locked on a target at
\* which a dead enemy is found: the player is then idle and has no target,
\* also in the frame in which its attack kills the enemy at the target.
TargetIsDead(p, en) ==
    /\ p.attackTarget # Null
    /\ findEnemyAtPosition(en, p.attackTarget) # 0
    /\ ~en[findEnemyAtPosition(en, p.attackTarget)].isAlive

C12_DeadTargetCancels ==
    [][ \/ /\ ~TargetIsDead(player', enemies')
           /\ ( /\ player.attackTarget # Null
                /\ findEnemyAtPosition(enemies, player.attackTarget) # 0
                /\ ~TargetIsDead(player, enemies)
                /\ TargetIsDead(player, enemies') )
                => player'.attackState = "idle" /\ player'.attackTarget = Null
        \/ ~ \E deltaTime \in Frames, keys \in KeySets :
               SceneManagerUpdate(deltaTime, keys) ]_vars

\* The frame in which the fourth attack killed the locked target has ended
\* with the player idle, both damage flags cleared by the cancellation
C12_KillingFrame ==
    /\ player.model
    /\ clicked = slimePositions[1]
    /\ ~enemies[1].isAlive
    /\ visit.signals = 1
    /\ visit.hits[1] = 1
    /\ player.attackState = "idle"
    /\ player.attackTarget = Null
    /\ ~player.damageDealtThisAttack
    /\ ~player.shouldDealDamageThisFrame

-----------------------------------------------------------------------------
(* One enemy under the calls of its public interface *)

\* The damage of a call of takeDamage: the player's, one that does not
\* divide the health, and one above the whole health
Damages == {attackDamage, 40, 150}

\* The positions that setPosition is called with
Places == {slimePositions[1], slimePositions[2]}

\* A slime spawned from any outcome of loading its model
EnemyInit ==
    /\ terrainSeed = 0
    /\ player = newPlayer
    /\ enemies \in {<< spawnSlime(slimePositions[1], asset) >> : asset \in SlimeAssets}
    /\ lastReturn = "none"
    /\ visit = [signals |-> 0, hits |-> << >>, count |-> 0]
    /\ clicked = slimePositions[1]
    /\ selectedEnemy = 0
    /\ removed = << >>
    /\ lastCall = Null
    /\ sample = Null
    /\ input = newInput

\* What a call on the enemies leaves alone
scene == <<terrainSeed, player, lastReturn, visit, clicked, selectedEnemy, removed, sample, input>>

\* enemy.takeDamage(damage)
TakeDamage(k, damage) ==
    /\ enemies' = [enemies EXCEPT ![k] = takeDamage(@, damage)]
    /\ lastCall' = [op |-> "takeDamage", enemy |-> k, damage |-> damage,
                    wasAlive |-> enemies[k].isAlive]
    /\ UNCHANGED scene

\* enemyManager.update(deltaTime)
Update(hopDue) ==
    /\ enemies' = EnemyManagerUpdate(enemies, hopDue)
    /\ lastCall' = [op |-> "update", enemy |-> 0, damage |-> 0, wasAlive |-> TRUE]
    /\ UNCHANGED scene

\* enemy.setPosition(position)
SetPosition(k, position) ==
    /\ enemies' = [enemies EXCEPT ![k] = setPosition(@, position)]
    /\ lastCall' = [op |-> "setPosition", enemy |-> k, damage |-> 0,
                    wasAlive |-> enemies[k].isAlive]
    /\ UNCHANGED scene

\* enemy.setSelected(selected)
SetSelected(k, selected) ==
    /\ enemies' = [enemies EXCEPT ![k] = setSelected(@, selected)]
    /\ lastCall' = [op |-> "setSelected", enemy |-> k, damage |-> 0,
                    wasAlive |-> enemies[k].isAlive]
    /\ UNCHANGED scene

\* The frame callback that Slime.die requested
AnimateDeath(k) ==
    /\ enemies[k].deathFade > 0
    /\ enemies[k].deathFade < MaxFade
    /\ enemies' = [enemies EXCEPT ![k] = animateDeath(@)]
    /\ lastCall' = [op |-> "animateDeath", enemy |-> k, damage |-> 0,
                    wasAlive |-> enemies[k].isAlive]
    /\ UNCHANGED scene

EnemyNext ==
    \/ \E k \in 1..Len(enemies), damage \in Damages : TakeDamage(k, damage)
    \/ \E hopDue \in HopChoices(enemies) : Update(hopDue)
    \/ \E k \in 1..Len(enemies), position \in Places : SetPosition(k, position)
    \/ \E k \in 1..Len(enemies), selected \in BOOLEAN : SetSelected(k, selected)
    \/ \E k \in 1..Len(enemies) : AnimateDeath(k)

SpecEnemy == EnemyInit /\ [][EnemyNext]_vars

\* Whether the death of the enemy has an animation to start: the death
\* clip, or the fallback effect on a first child that is a mesh
HasDeathAnimation(e) == "death" \in e.animations \/ (e.model # "none" /\ e.meshMaterial)

C14_HealthWithinBounds ==
    \A k \in 1..Len(enemies) :
        /\ 0 <= enemies[k].health
        /\ enemies[k].health <= enemies[k].maxHealth
        /\ enemies[k].isAlive = (enemies[k].health > 0)

\* The enemy has died of a hit larger than the health it had left
C14_Overkill ==
    /\ lastCall # Null
    /\ lastCall.op = "takeDamage"
    /\ lastCall.wasAlive
    /\ lastCall.damage = 40
    /\ ~enemies[1].isAlive
    /\ enemies[1].health = 0

\* C15: the alive flag of an enemy is monotonic: over every step, of
\* update, takeDamage, setPosition, setSelected or a timer callback, an
\* enemy that is not alive stays not alive.
C15_AliveNeverReverts ==
    [][ \A k \in 1..Len(enemies) : ~enemies[k].isAlive => ~enemies'[k].isAlive ]_vars

\* A dead enemy that has since been moved, selected and updated
C15_DeadAndUpdated ==
    /\ lastCall # Null
    /\ lastCall.op = "update"
    /\ ~enemies[1].isAlive
    /\ enemies[1].isSelected
    /\ enemies[1].position = slimePositions[2]
    /\ enemies[1].currentAnimation = "death"

-----------------------------------------------------------------------------
(* The selection of the enemy manager *)

\* How many enemies the manager of this part starts with
MaxEnemies == 2

\* An enemy object with its identity, which the manager compares by
\* reference (===, indexOf)
withId(e, id) == [id |-> id] @@ e

\* setSelected on the object with the given identity, wherever it is
setSelectedOf(objects, id, selected) ==
    [k \in 1..Len(objects) |->
        IF objects[k].id = id THEN setSelected(objects[k], selected) ELSE objects[k]]

\* The manager and the enemy objects it may still refer to
theManager == [enemies |-> enemies, removed |-> removed, selectedEnemy |-> selectedEnemy]

\* selectEnemy that does not deselect the previous selection
selectEnemyKeepsPrevious(m, enemy) ==
    LET set == [m EXCEPT !.selectedEnemy = enemy]
    IN IF enemy # 0
       THEN [set EXCEPT !.enemies = setSelectedOf(@, enemy, TRUE),
                        !.removed = setSelectedOf(@, enemy, TRUE)]
       ELSE set

\* EnemyManager.selectEnemy(enemy), enemy = 0 for null
selectEnemy(m, enemy) ==
    LET deselected ==
            IF m.selectedEnemy # 0
            THEN [m EXCEPT !.enemies = setSelectedOf(@, m.selectedEnemy, FALSE),
                           !.removed = setSelectedOf(@, m.selectedEnemy, FALSE)]
            ELSE m
        set == [deselected EXCEPT !.selectedEnemy = enemy]
    IN IF enemy # 0
       THEN [set EXCEPT !.enemies = setSelectedOf(@, enemy, TRUE),
                        !.removed = setSelectedOf(@, enemy, TRUE)]
       ELSE set

\* this.enemies.indexOf(enemy), 0 for -1
indexOf(en, enemy) ==
    LET at == {k \in 1..Len(en) : en[k].id = enemy}
    IN IF at = {} THEN 0 ELSE CHOOSE k \in at : \A other \in at : k <= other

\* EnemyManager.removeEnemy(enemy)
removeEnemy(m, enemy) ==
    LET index == indexOf(m.enemies, enemy)
    IN IF index = 0 THEN m
       ELSE [m EXCEPT !.selectedEnemy = IF @ = enemy THEN 0 ELSE @,
                      !.enemies = SubSeq(@, 1, index - 1) \o SubSeq(@, index + 1, Len(@)),
                      !.removed = Append(@, m.enemies[index])]

\* The raycaster given the models of the dead enemies too
clickableWithTheDead(en) == {en[k].id : k \in {n \in 1..Len(en) : en[n].model # "none"}}

\* EnemyManager.handleClick: the enemies whose models are given to the
\* raycaster
clickable(en) == {en[k].id : k \in {n \in 1..Len(en) : en[n].model # "none" /\ en[n].isAlive}}

\* EnemyManager.handleClick, hit being the enemy whose model the ray
\* meets first, 0 when it meets none
handleClick(m, hit) ==
    IF hit # 0
    THEN IF m.selectedEnemy = hit THEN m ELSE selectEnemy(m, hit)
    ELSE selectEnemy(m, 0)

\* handleClick that returns the clicked enemy on every hit
handleClickReturnsTheHit(m, hit) == hit

\* The value handleClick returns: the enemy to attack, 0 for null
handleClickReturns(m, hit) == IF hit # 0 /\ m.selectedEnemy = hit THEN hit ELSE 0

\* The identities of the enemy objects
Ids == 1..MaxEnemies

\* The manager after spawnSlime for each of the enemies
SelectionInit ==
    /\ terrainSeed = 0
    /\ player = newPlayer
    /\ enemies = [k \in Ids |->
                    withId(spawnSlime(slimePositions[((k - 1) % Len(slimePositions)) + 1],
                                      slimeAsset), k)]
    /\ lastReturn = "none"
    /\ visit = [signals |-> 0, hits |-> << >>, count |-> 0]
    /\ clicked = slimePositions[1]
    /\ selectedEnemy = 0
    /\ removed = << >>
    /\ lastCall = Null
    /\ sample = Null
    /\ input = newInput

\* What a call on the manager leaves alone
world == <<terrainSeed, player, lastReturn, visit, clicked, sample, input>>

\* enemyManager.handleClick(event, camera, scene)
HandleClick(hit) ==
    LET after == handleClick(theManager, hit)
    IN /\ enemies' = after.enemies
       /\ removed' = after.removed
       /\ selectedEnemy' = after.selectedEnemy
       /\ lastCall' = [op |-> "handleClick", enemy |-> hit, selectedBefore |-> selectedEnemy,
                       returned |-> handleClickReturns(theManager, hit)]
       /\ UNCHANGED world

\* enemyManager.selectEnemy(enemy)
SelectEnemy(enemy) ==
    LET after == selectEnemy(theManager, enemy)
    IN /\ enemies' = after.enemies
       /\ removed' = after.removed
       /\ selectedEnemy' = after.selectedEnemy
       /\ lastCall' = [op |-> "selectEnemy", enemy |-> enemy, selectedBefore |-> selectedEnemy,
                       returned |-> 0]
       /\ UNCHANGED world

\* enemyManager.removeEnemy(enemy)
RemoveEnemy(enemy) ==
    LET after == removeEnemy(theManager, enemy)
    IN /\ enemies' = after.enemies
       /\ removed' = after.removed
       /\ selectedEnemy' = after.selectedEnemy
       /\ lastCall' = [op |-> "removeEnemy", enemy |-> enemy, selectedBefore |-> selectedEnemy,
                       returned |-> 0]
       /\ UNCHANGED world

\* A hit that kills the enemy, so that the raycaster no longer sees it
Kill(k) ==
    /\ enemies[k].isAlive
    /\ enemies' = [enemies EXCEPT ![k] = takeDamage(@, enemies[k].maxHealth)]
    /\ lastCall' = [op |-> "takeDamage", enemy |-> enemies[k].id,
                    selectedBefore |-> selectedEnemy, returned |-> 0]
    /\ UNCHANGED <<world, selectedEnemy, removed>>

SelectionNext ==
    \/ \E hit \in clickable(enemies) \cup {0} : HandleClick(hit)
    \/ \E enemy \in Ids \cup {0} : SelectEnemy(enemy)
    \/ \E enemy \in Ids : RemoveEnemy(enemy)
    \/ \E k \in 1..Len(enemies) : Kill(k)

SpecSelection == SelectionInit /\ [][SelectionNext]_vars

\* C16: after any sequence of handleClick, selectEnemy and removeEnemy
\* calls on the manager, at most one registered enemy has its selected
\* flag (and so its selection ring) set, and a registered enemy has the
\* flag set exactly when it is the manager's selectedEnemy.
C16_OneSelection ==
    /\ Cardinality({k \in 1..Len(enemies) : enemies[k].isSelected}) <= 1
    /\ \A k \in 1..Len(enemies) : enemies[k].isSelected = (selectedEnemy = enemies[k].id)

\* The second enemy is selected after the first one, which was selected
\* before it, has been removed
C16_SelectedAfterRemoval ==
    /\ Len(enemies) = 1
    /\ Len(removed) = 1
    /\ removed[1].id = 1
    /\ removed[1].isSelected
    /\ selectedEnemy = 2
    /\ enemies[1].id = 2
    /\ enemies[1].isSelected

\* C17: a click that hits the selected enemy returns that enemy and
\* leaves the selection as it is; a click that hits another enemy
\* deselects the previous one, selects the clicked one and returns null;
\* a click that hits no enemy deselects the selection and returns null.
\* So the first click on an unselected enemy never asks for an attack.
C17_ClickSelectsThenAttacks ==
    [][ lastCall'.op = "handleClick" =>
          LET hit == lastCall'.enemy
              returned == lastCall'.returned
          IN /\ lastCall'.selectedBefore = selectedEnemy
             /\ (hit # 0 /\ hit = selectedEnemy) =>
                   /\ returned = hit
                   /\ selectedEnemy' = selectedEnemy
                   /\ enemies' = enemies
                   /\ removed' = removed
             /\ (hit # 0 /\ hit # selectedEnemy) =>
                   /\ returned = 0
                   /\ selectedEnemy' = hit
                   /\ \A k \in 1..Len(enemies') :
                        enemies'[k].isSelected = (enemies'[k].id = hit)
                   /\ \A k \in 1..Len(removed') :
                        removed'[k].id = selectedEnemy => ~removed'[k].isSelected
             /\ hit = 0 =>
                   /\ returned = 0
                   /\ selectedEnemy' = 0
                   /\ \A k \in 1..Len(enemies') : ~enemies'[k].isSelected
                   /\ \A k \in 1..Len(removed') :
                        removed'[k].id = selectedEnemy => ~removed'[k].isSelected ]_vars

\* The second click on the second enemy, which the click before had
\* selected in place of the first, asks for the attack
C17_SecondClickAttacks ==
    /\ lastCall # Null
    /\ lastCall.op = "handleClick"
    /\ lastCall.enemy = 2
    /\ lastCall.selectedBefore = 2
    /\ lastCall.returned = 2
    /\ selectedEnemy = 2
    /\ Len(enemies) = 2
    /\ enemies[2].isSelected
    /\ ~enemies[1].isSelected

-----------------------------------------------------------------------------
(* The height sampling of the terrain *)

\* The indices of the grid lines next to which positions are sampled
\* off the grid: every EdgeStep-th line, the two borders among them
EdgeStep == 8

\* The coordinates sampled, in hundredths of a unit: those of every grid
\* line, those just before and just after some of them, and some outside
\* the terrain
Coordinates ==
    {worldCoordinate(index) : index \in 0..(terrainSize - 1)}
    \cup {worldCoordinate(index) + d :
            index \in {n \in 0..(terrainSize - 1) : n % EdgeStep = 0}, d \in {-1, 1, 62}}
    \cup {-10000, 7500}

\* A terrain, and a position at which getHeightAt has not been called yet
TerrainInit ==
    /\ terrainSeed \in 0..MaxSeed
    /\ player = newPlayer
    /\ enemies = << >>
    /\ lastReturn = "none"
    /\ visit = [signals |-> 0, hits |-> << >>, count |-> 0]
    /\ clicked = Vec(0, 0, 0)
    /\ selectedEnemy = 0
    /\ removed = << >>
    /\ lastCall = Null
    /\ input = newInput
    /\ sample \in {[x |-> x, z |-> z, called |-> FALSE, height |-> 0, reads |-> {}] :
                     x \in Coordinates, z \in Coordinates}

\* terrain.getHeightAt(x, z)
GetHeightAt ==
    /\ ~sample.called
    /\ sample' = [sample EXCEPT !.called = TRUE,
                                !.height = getHeightAt(terrainSeed, sample.x, sample.z),
                                !.reads = getHeightAtReads(sample.x, sample.z)]
    /\ UNCHANGED <<terrainSeed, player, enemies, lastReturn, visit, clicked,
                   selectedEnemy, removed, lastCall, input>>

TerrainNext == GetHeightAt

SpecTerrain == TerrainInit /\ [][TerrainNext]_vars

\* C18: getHeightAt returns exactly 0 at every position with |x| > 50 or
\* |z| > 50 and reads no element of the height grid there; at every
\* position within the bounds, the borders x = +-50 and z = +-50
\* included, each of the four grid points it reads has both indices
\* within 0..S-1.
C18_OutOfBoundsIsZero ==
    sample.called =>
      /\ (Abs(sample.x) > 5000 \/ Abs(sample.z) > 5000) =>
            sample.height = 0 /\ sample.reads = {}
      /\ (Abs(sample.x) <= 5000 /\ Abs(sample.z) <= 5000) => sample.reads # {}
      /\ \A read \in sample.reads :
            /\ read[1] \in 0..(terrainSize - 1)
            /\ read[2] \in 0..(terrainSize - 1)

\* The corner (50, 50) of the terrain has been sampled, where all four
\* reads are of the last grid point
C18_CornerSampled ==
    /\ sample.called
    /\ sample.x = 5000
    /\ sample.z = 5000
    /\ sample.reads = {<<terrainSize - 1, terrainSize - 1>>}
    /\ sample.height = heightMap(terrainSeed, terrainSize - 1, terrainSize - 1)

CornerHeights(seed, reads) == {heightMap(seed, read[1], read[2]) : read \in reads}

\* The positions one hundredth of a unit from (x, z) along an axis
Neighbours(x, z) == {<<x - 1, z>>, <<x + 1, z>>, <<x, z - 1>>, <<x, z + 1>>}

\* C20: at every position within the bounds the sampled height lies
\* between the least and the greatest of the four surrounding grid
\* heights; it has no step: the heights sampled a hundredth of a unit
\* apart differ by no more than the rounding unit, also across a grid
\* line; and on a grid line the interpolations of the two cells that
\* share it give the same height.
C20_NoSeams ==
    (sample.called /\ isWithinBounds(sample.x, sample.z)) =>
      LET c == corners(exactIndex(sample.z), exactIndex(sample.x))
          heights == CornerHeights(terrainSeed, sample.reads)
      IN /\ \E low \in heights : low <= sample.height
         /\ \E high \in heights : sample.height <= high
         /\ \A n \in Neighbours(sample.x, sample.z) :
               isWithinBounds(n[1], n[2])
                 => Abs(getHeightAt(terrainSeed, n[1], n[2]) - sample.height) <= 1
         /\ (c.fj = 0 /\ c.j0 >= 1) =>
               bilinear(terrainSeed, c.i0, c.i1, c.j0 - 1, c.j0, c.fi, 1000) = sample.height
         /\ (c.fi = 0 /\ c.i0 >= 1) =>
               bilinear(terrainSeed, c.i0 - 1, c.i0, c.j0, c.j1, 1000, c.fj) = sample.height

\* A position just before a grid line has been sampled where the grid
\* heights on the two sides of the line differ
C20_BeforeAGridLine ==
    /\ sample.called
    /\ sample.x = worldCoordinate(48) - 1
    /\ sample.z = worldCoordinate(40)
    /\ heightMap(terrainSeed, 40, 47) # heightMap(terrainSeed, 40, 48)
    /\ sample.height = heightMap(terrainSeed, 40, 48)

-----------------------------------------------------------------------------
(* The queries of the collision manager *)

\* The boxes that addCollisionBox is called with: the debug cube of the
\* scene (top at 2), a column that shares part of its footprint (top at
\* 4), and a slab lying in a hollow of the terrain (top at -0.5)
BoxChoices ==
    { [position |-> Vec(0, 10, 30), size |-> Vec(20, 20, 20)],
      [position |-> Vec(10, 20, 30), size |-> Vec(20, 40, 20)],
      [position |-> Vec(0, -10, 30), size |-> Vec(40, 10, 40)] }

\* The lists of boxes of a manager after at most two addCollisionBox calls
BoxLists ==
    {<< >>} \cup {<<b>> : b \in BoxChoices} \cup {<<b, c>> : b \in BoxChoices, c \in BoxChoices}

\* The actor of a query: where it is, its radius and its height
QueryXs == {-15, 0, 15, 25, 40}
QueryZs == {15, 30, 45}
QueryYs == {-20, -6, -5, 0, 19, 20, 39, 50}
QueryRadii == {0, 5}
queryHeight == 20

\* A manager with its boxes and a query that has not been made yet
CollisionInit ==
    /\ terrainSeed = 0
    /\ player = newPlayer
    /\ enemies = << >>
    /\ lastReturn = "none"
    /\ visit = [signals |-> 0, hits |-> << >>, count |-> 0]
    /\ clicked = Vec(0, 0, 0)
    /\ selectedEnemy = 0
    /\ removed = << >>
    /\ lastCall = Null
    /\ input = newInput
    /\ sample \in {[boxes |-> boxes, x |-> x, z |-> z, y |-> y, radius |-> radius,
                    query |-> "none", result |-> 0, boxesAfter |-> boxes] :
                     boxes \in BoxLists, x \in QueryXs, z \in QueryZs, y \in QueryYs,
                     radius \in QueryRadii}

\* What a query of the manager leaves alone
notSample == <<terrainSeed, player, enemies, lastReturn, visit, clicked,
               selectedEnemy, removed, lastCall, input>>

\* collisionManager.getHeightAt(x, z, radius, y)
CollisionHeightQuery ==
    /\ sample.query = "none"
    /\ sample' = [sample EXCEPT
                    !.query = "getHeightAt",
                    !.result = HeightOver(sample.boxes, 1, sample.x, sample.z,
                                          sample.radius, sample.y, 0)]
    /\ UNCHANGED notSample

\* collisionManager.checkHorizontalCollision(x, z, y, radius, height)
HorizontalCollisionQuery ==
    /\ sample.query = "none"
    /\ sample' = [sample EXCEPT
                    !.query = "checkHorizontalCollision",
                    !.result = horizontalCollision(sample.boxes, sample.x, sample.z,
                                                   sample.y, sample.radius, queryHeight)]
    /\ UNCHANGED notSample

\* collisionManager.checkCollision(position, size) for the same volume:
\* its centre is half the height above the actor's feet
CollisionQuery ==
    /\ sample.query = "none"
    /\ sample' = [sample EXCEPT
                    !.query = "checkCollision",
                    !.result = checkCollision(sample.boxes,
                                   Vec(sample.x, sample.y + queryHeight \div 2, sample.z),
                                   Vec(2 * sample.radius, queryHeight, 2 * sample.radius))]
    /\ UNCHANGED notSample

CollisionNext ==
    \/ CollisionHeightQuery
    \/ HorizontalCollisionQuery
    \/ CollisionQuery

SpecCollision == CollisionInit /\ [][CollisionNext]_vars

\* The top surface of a box
topOf(box) == box.position.y + box.size.y \div 2

\* The boxes that qualify for landing: the footprint widened by the
\* radius contains (x, z) and y is not more than 0.1 below the top
Qualifying(boxes, x, z, radius, y) ==
    {k \in 1..Len(boxes) :
        /\ Abs(x - boxes[k].position.x) <= boxes[k].size.x \div 2 + radius
        /\ Abs(z - boxes[k].position.z) <= boxes[k].size.z \div 2 + radius
        /\ y >= topOf(boxes[k]) - 1}

\* C21: getHeightAt(x, z, radius, fromY) returns the greatest top of the
\* boxes whose footprint widened by the radius contains (x, z) and whose
\* top is not more than 0.1 above fromY, and 0 when there is no such
\* box; the boxes are left as they were.
C21_HighestQualifyingTop ==
    sample.query = "getHeightAt" =>
      LET q == Qualifying(sample.boxes, sample.x, sample.z, sample.radius, sample.y)
      IN /\ q = {} => sample.result = 0
         /\ q # {} => /\ \E k \in q : sample.result = topOf(sample.boxes[k])
                      /\ \A k \in q : sample.result >= topOf(sample.boxes[k])
         /\ sample.boxesAfter = sample.boxes

\* The actor's volume and a box overlap on an axis, as closed intervals
AxisOverlap(low, high, centre, size) ==
    low <= centre + size \div 2 /\ high >= centre - size \div 2

\* The actor's volume and some box overlap on all three axes
ClosedOverlap(boxes, x, y, z, radius) ==
    \E k \in 1..Len(boxes) :
        /\ AxisOverlap(x - radius, x + radius, boxes[k].position.x, boxes[k].size.x)
        /\ AxisOverlap(y, y + queryHeight, boxes[k].position.y, boxes[k].size.y)
        /\ AxisOverlap(z - radius, z + radius, boxes[k].position.z, boxes[k].size.z)

\* C22: checkCollision and checkHorizontalCollision both report a
\* collision exactly when the actor's volume and a box overlap on all
\* three axes as closed intervals, so that volumes whose faces just touch
\* on one axis and that overlap on the other two are reported by both.
C22_BothQueriesClosed ==
    sample.query \in {"checkCollision", "checkHorizontalCollision"} =>
        sample.result = ClosedOverlap(sample.boxes, sample.x, sample.y, sample.z, sample.radius)

-----------------------------------------------------------------------------
(* The mouse deltas of the input manager *)

\* event.movementX, event.movementY and event.deltaY of the events
MouseMovements == {[x |-> -1, y |-> 0], [x |-> 2, y |-> 1], [x |-> 5, y |-> -3]}
WheelDeltas == {-100, 100}

\* An input manager before any event
InputInit ==
    /\ terrainSeed = 0
    /\ player = newPlayer
    /\ enemies = << >>
    /\ lastReturn = "none"
    /\ visit = [signals |-> 0, hits |-> << >>, count |-> 0]
    /\ clicked = Vec(0, 0, 0)
    /\ selectedEnemy = 0
    /\ removed = << >>
    /\ lastCall = Null
    /\ sample = Null
    /\ input = newInput

\* What an event or a reset of the input manager leaves alone
notInput == <<terrainSeed, player, enemies, lastReturn, visit, clicked,
              selectedEnemy, removed, lastCall, sample>>

\* InputManager.onMouseMove(event)
OnMouseMove(movement) ==
    /\ input.events < MaxEvents
    /\ input' = [input EXCEPT !.mouseMovement = movement,
                              !.events = @ + 1,
                              !.received.x = @ + movement.x,
                              !.received.y = @ + movement.y]
    /\ UNCHANGED notInput

\* InputManager.onWheel(event)
OnWheel(deltaY) ==
    /\ input.events < MaxEvents
    /\ input' = [input EXCEPT !.wheelDelta = deltaY,
                              !.events = @ + 1,
                              !.received.wheel = @ + deltaY]
    /\ UNCHANGED notInput

\* InputManager.update(), at the end of a frame
InputUpdate ==
    /\ input' = [input EXCEPT !.mouseMovement = [x |-> 0, y |-> 0],
                              !.wheelDelta = 0,
                              !.events = 0,
                              !.received = [x |-> 0, y |-> 0, wheel |-> 0]]
    /\ UNCHANGED notInput

InputNext ==
    \/ \E movement \in MouseMovements : OnMouseMove(movement)
    \/ \E deltaY \in WheelDeltas : OnWheel(deltaY)
    \/ InputUpdate

SpecInput == InputInit /\ [][InputNext]_vars

\* C23: getMouseMovement and getWheelDelta return the sums of the
\* movements and of the wheel deltas of all the events received since the
\* last InputManager.update(), and 0 right after it.
C23_DeltasAccumulate ==
    /\ input.mouseMovement.x = input.received.x
    /\ input.mouseMovement.y = input.received.y
    /\ input.wheelDelta = input.received.wheel

-----------------------------------------------------------------------------
(* The player while its model is being loaded *)

\* WorldScene.initialize up to the await inside player.initialize()
InitializeBegins ==
    /\ player.loadAttempts = 0
    /\ player' = initializeBegins(player)
    /\ UNCHANGED <<terrainSeed, enemies, lastReturn, visit, clicked>>
    /\ UNCHANGED manager

\* The load of '/models/player.glb' resolves or fails, and
\* WorldScene.initialize runs to its end
LoadResolves(succeeded) ==
    /\ player.loadPending
    /\ player' = [loadResolves(player, succeeded) EXCEPT !.isTargetAliveCallback = TRUE]
    /\ enemies' = [k \in 1..Min(NumSlimes, Len(slimePositions)) |->
                     spawnSlime(slimePositions[k], slimeAsset)]
    /\ visit' = [visit EXCEPT !.hits = [k \in 1..Min(NumSlimes, Len(slimePositions)) |-> 0]]
    /\ UNCHANGED <<terrainSeed, lastReturn, clicked>>
    /\ UNCHANGED manager

\* player.update(deltaTime, inputManager, camera, terrain, collisionManager)
\* called before the model is there
UpdateUnloaded(deltaTime, keys) ==
    /\ ~player.model
    /\ player' = PlayerUpdate(player, deltaTime, keys, Null, enemies, terrainSeed)
    /\ lastCall' = [op |-> "update"]
    /\ UNCHANGED <<terrainSeed, enemies, lastReturn, visit, clicked,
                   selectedEnemy, removed, sample, input>>

LoadingNext ==
    \/ InitializeBegins
    \/ \E succeeded \in BOOLEAN : LoadResolves(succeeded)
    \/ \E deltaTime \in Frames, keys \in KeySets : UpdateUnloaded(deltaTime, keys)
    \/ Tick
    \/ StartAttack(clicked)
    \/ CancelAttack
    \/ \E deltaTime \in Frames : SceneManagerUpdate(deltaTime, {})

SpecLoading == InitFor({slimePositions[1]}) /\ [][LoadingNext]_vars

\* C24: while the model is null, Player.update with any frame duration
\* and any keys returns the player as it was (position, velocity,
\* grounded flag, attack state, target and damage flags); the load is
\* never attempted twice, and once initialize() has completed, by the
\* load or by its failure, the model is not null and the load has been
\* attempted exactly once.
C24_NoUpdateBeforeTheModel ==
    /\ ~player.model =>
          \A deltaTime \in Frames, keys \in KeySets :
              PlayerUpdate(player, deltaTime, keys, Null, enemies, terrainSeed) = player
    /\ player.loadAttempts <= 1
    /\ (player.loadAttempts >= 1 /\ ~player.loadPending) =>
          player.model /\ player.loadAttempts = 1
    /\ player.model => ~player.loadPending

\* An update has been called on a player that is in the air, has been
\* sent to a target and whose load is still pending
C24_UpdatedWhileLoading ==
    /\ lastCall # Null
    /\ lastCall.op = "update"
    /\ ~player.model
    /\ player.loadPending
    /\ player.attackState = "moving_to_target"
    /\ player.position = Vec(0, 50, 0)

-----------------------------------------------------------------------------
(* The order of the state machine and the cancellation in Player.update *)

\* What the state machine has done in a Player.update by the time the
\* movement input is looked at
steppedBeforeInput(p, deltaTime, en) ==
    updateAttackStateMachine([p EXCEPT !.shouldDealDamageThisFrame = FALSE], deltaTime, en)

\* C25: in a Player.update with movement input while the state is not
\* 'idle', the cancellation comes before the state machine: the state
\* machine does not move the player toward the target, does not enter
\* 'attacking' or 'cooldown' and does not raise the damage signal, so the
\* frame ends where the update of the already cancelled player ends.
C25_CancelledBeforeTheStateMachine ==
    [][ \A deltaTime \in Frames, keys \in KeySets :
          ( /\ player.attackState # "idle"
            /\ HasMovementInput(keys)
            /\ SceneManagerUpdate(deltaTime, keys) )
          => LET stepped == steppedBeforeInput(player, deltaTime, enemies)
                 first == PlayerUpdate(cancelAttack(player), deltaTime, keys, Null,
                                       enemies, terrainSeed)
             IN /\ stepped.position = player.position
                /\ stepped.attackState \in {"attacking", "cooldown"}
                     => stepped.attackState = player.attackState
                /\ ~stepped.shouldDealDamageThisFrame
                /\ player'.position = first.position ]_vars

-----------------------------------------------------------------------------
(* The moment of the damage signal *)

\* C26: Player.update raises the damage signal only in 'attacking' and
\* only when the time since the entry to 'attacking' has reached half of
\* attackAnimationDuration; and an update without movement input made at
\* such a time, when no signal has been raised yet in this visit, raises
\* it.
C26_SignalAtHalfTheAnimation ==
    [][ \A deltaTime \in Frames, keys \in KeySets :
          SceneManagerUpdate(deltaTime, keys)
          => LET updated == PlayerUpdate(player, deltaTime, keys, Null, enemies, terrainSeed)
                 halfWay == /\ player.attackState = "attacking"
                            /\ 2 * player.stateTime >= attackAnimationDuration
             IN /\ updated.shouldDealDamageThisFrame => halfWay
                /\ (halfWay /\ visit.signals = 0 /\ ~HasMovementInput(keys))
                     => updated.shouldDealDamageThisFrame ]_vars

\* The signal has been raised by an update made exactly half of the
\* animation after the entry to 'attacking'
C26_RaisedAtHalf ==
    /\ player.attackState = "attacking"
    /\ 2 * player.stateTime = attackAnimationDuration
    /\ player.shouldDealDamageThisFrame
    /\ player.damageDealtThisAttack
    /\ visit.signals = 1

\* C27: at the end of a WorldScene.update that has applied damage to an
\* enemy, player.shouldDealDamage() is false.
C27_SignalClearedWhenConsumed ==
    [][ \A deltaTime \in Frames, keys \in KeySets :
          ( /\ SceneManagerUpdate(deltaTime, keys)
            /\ \E k \in 1..Len(enemies) : enemies'[k].health < enemies[k].health )
          => ~player'.shouldDealDamageThisFrame ]_vars

-----------------------------------------------------------------------------
(* Two runs of one player fed the same calls *)

\* Two players are constructed and given the same calls: `player' is the
\* player of the first run and `sample' the player of the second.  Each
\* run has its own wall clock, so the time between two calls differs from
\* run to run; the slimes, which no call made here touches, are the same
\* in both.
ClockInit ==
    /\ terrainSeed \in 0..MaxSeed
    /\ player = newPlayer
    /\ enemies = << >>
    /\ lastReturn = "none"
    /\ visit = [signals |-> 0, hits |-> << >>, count |-> 0]
    /\ clicked = slimePositions[1]
    /\ selectedEnemy = 0
    /\ removed = << >>
    /\ lastCall = Null
    /\ sample = newPlayer
    /\ input = newInput

notClock == <<terrainSeed, lastReturn, visit, clicked, selectedEnemy, removed, lastCall, input>>

\* Player.initialize in both runs, and the slimes of WorldScene.initialize
ClockInitialize ==
    /\ ~player.model
    /\ player' = [loadResolves(initializeBegins(player), TRUE)
                      EXCEPT !.isTargetAliveCallback = TRUE]
    /\ sample' = [loadResolves(initializeBegins(sample), TRUE)
                      EXCEPT !.isTargetAliveCallback = TRUE]
    /\ enemies' = [k \in 1..Min(NumSlimes, Len(slimePositions)) |->
                     spawnSlime(slimePositions[k], slimeAsset)]
    /\ UNCHANGED notClock

\* Date.now() advances in the first run
TickFirst ==
    /\ player.attackState \in {"attacking", "cooldown"}
    /\ player.stateTime < MaxStateTime
    /\ player' = [player EXCEPT !.stateTime = @ + 1]
    /\ UNCHANGED <<enemies, sample>>
    /\ UNCHANGED notClock

\* Date.now() advances in the second run
TickSecond ==
    /\ sample.attackState \in {"attacking", "cooldown"}
    /\ sample.stateTime < MaxStateTime
    /\ sample' = [sample EXCEPT !.stateTime = @ + 1]
    /\ UNCHANGED <<enemies, player>>
    /\ UNCHANGED notClock

\* player.startAttack(target) in both runs
ClockStartAttack(target) ==
    /\ player' = startAttack(player, target)
    /\ sample' = startAttack(sample, target)
    /\ UNCHANGED enemies
    /\ UNCHANGED notClock

\* player.update(deltaTime, inputManager) in both runs, with the same
\* frame duration and the same keys held
ClockUpdate(deltaTime, keys) ==
    /\ player.model
    /\ player' = PlayerUpdate(player, deltaTime, keys, Null, enemies, terrainSeed)
    /\ sample' = PlayerUpdate(sample, deltaTime, keys, Null, enemies, terrainSeed)
    /\ UNCHANGED enemies
    /\ UNCHANGED notClock

ClockNext ==
    \/ ClockInitialize
    \/ TickFirst
    \/ TickSecond
    \/ ClockStartAttack(clicked)
    \/ \E deltaTime \in Frames, keys \in KeySets : ClockUpdate(deltaTime, keys)

SpecClock == ClockInit /\ [][ClockNext]_vars

\* C28: two runs given the same frame durations, keys and startAttack
\* calls are in the same attack state after every call and have the
\* damage signal raised after the same calls, whatever time passes on
\* each run's own clock between the calls.
C28_TimingFromTheFrameClock ==
    /\ sample.attackState = player.attackState
    /\ sample.shouldDealDamageThisFrame = player.shouldDealDamageThisFrame

-----------------------------------------------------------------------------
(* The jump key during an attack *)

\* The key states of the frames: nothing pressed, the jump key, and the
\* jump key with two opposite movement keys (no movement input)
JumpKeySets == { {}, {"Space"}, {"KeyW", "KeyS", "Space"} }

\* One frame of the game loop, with the keys it was run with recorded
JumpFrame(deltaTime, keys) ==
    /\ player.model
    /\ LET updated == PlayerUpdate(player, deltaTime, keys, Null, enemies, terrainSeed)
       IN /\ enemies' \in {dealDamage(updated, EnemyManagerUpdate(enemies, hopDue)) :
                              hopDue \in HopChoices(enemies)}
          /\ player' = cancelIfTargetDead(updated, enemies')
          /\ visit' = recordVisit(visit, player, updated, enemies)
    /\ lastCall' = [op |-> "update", keys |-> keys]
    /\ UNCHANGED <<terrainSeed, lastReturn, clicked, selectedEnemy, removed, sample, input>>

\* The frames of these runs all last the longest frame duration
JumpFrames == {MaxDt}

JumpNext ==
    \/ Initialize
    \/ Tick
    \/ StartAttack(clicked)
    \/ \E deltaTime \in JumpFrames, keys \in JumpKeySets : JumpFrame(deltaTime, keys)

SpecJump == InitFor({slimePositions[1]}) /\ [][JumpNext]_vars

-----------------------------------------------------------------------------
(* The approach to the target *)

\* The frame durations of these runs: 0.1 s, and the 1 s of a frame that
\* follows a stall of the page
AutoMoveFrames == {1, 10}

\* One frame of the game loop with no key held: Player.update step by step
\* (the state machine, no cancellation without movement input, the
\* movement handler when canMove, the physics), then the rest of
\* WorldScene.update
AutoMoveFrame(deltaTime) ==
    /\ player.model
    /\ \E stepped \in {steppedBeforeInput(player, deltaTime, enemies)} :
       \E moved \in {IF stepped.attackState \in {"idle", "moving_to_target"}
                     THEN handleMovement(stepped, deltaTime, getMovementInput({}), Null, FALSE)
                     ELSE stepped} :
       \E updated \in {applyPhysics(moved, deltaTime, terrainSeed)} :
          /\ enemies' \in {dealDamage(updated, EnemyManagerUpdate(enemies, hopDue)) :
                              hopDue \in HopChoices(enemies)}
          /\ player' = cancelIfTargetDead(updated, enemies')
          /\ visit' = recordVisit(visit, player, updated, enemies)
    /\ UNCHANGED <<terrainSeed, lastReturn, clicked>>
    /\ UNCHANGED manager

AutoMoveNext ==
    \/ Initialize
    \/ Tick
    \/ FirstStartAttack
    \/ \E deltaTime \in AutoMoveFrames : AutoMoveFrame(deltaTime)

\* The game loop requests the next frame at the end of every frame, so a
\* frame is always run again; initialize() is awaited before the loop
\* starts
SpecAutoMove ==
    /\ E2EInit
    /\ [][AutoMoveNext]_vars
    /\ WF_vars(Initialize)
    /\ WF_vars(\E deltaTime \in AutoMoveFrames : AutoMoveFrame(deltaTime))

\* A loaded player is on its way to the target
MovingToTarget == player.model /\ player.attackState = "moving_to_target"

\* The player has come within attackRange of its target and has started
\* the attack
AttackingInRange ==
    /\ player.attackState = "attacking"
    /\ WithinDistance(player.position, clicked, attackRange)

\* C30: a loaded player in 'moving_to_target', given frames without manual
\* input, eventually is within attackRange of its target and 'attacking',
\* whatever the durations of the frames.
C30_AutoMoveReachesTheTarget == MovingToTarget ~> AttackingInRange

-----------------------------------------------------------------------------
(* Manual movement through the game loop *)

\* C31: a frame of the game loop run with movement input while the player
\* is 'idle' moves the player horizontally by speed * deltaTime along the
\* camera-relative direction (half speed for backward input): it ends at
\* the x and z that Player.update reaches with the scene's camera.
C31_ManualMoveThroughTheLoop ==
    [][ \A deltaTime \in Frames, keys \in KeySets :
          ( /\ player.attackState = "idle"
            /\ HasMovementInput(keys)
            /\ SceneManagerUpdate(deltaTime, keys) )
          => LET withCamera == PlayerUpdate(player, deltaTime, keys, defaultCamera,
                                            enemies, terrainSeed)
             IN /\ player'.position.x = withCamera.position.x
                /\ player'.position.z = withCamera.position.z ]_vars

-----------------------------------------------------------------------------
(* Manual movement next to the collision box *)

\* How far from the origin, along x and z, the walks of these runs go
SlideReach == 40

\* The keys of the walks: backward (toward the box, at half speed), right,
\* and both (a diagonal move)
SlideKeySets == { {"KeyS"}, {"KeyD"}, {"KeyS", "KeyD"} }

\* WorldScene.update(deltaTime, inputManager, camera) called with the
\* scene's camera
SlideFrame(deltaTime, keys) ==
    /\ player.model
    /\ Abs(player.position.x) <= SlideReach
    /\ Abs(player.position.z) <= SlideReach
    /\ WorldSceneUpdate(deltaTime, keys, defaultCamera)

SlideNext ==
    \/ Initialize
    \/ \E deltaTime \in Frames, keys \in SlideKeySets : SlideFrame(deltaTime, keys)

SpecSlide == InitFor({slimePositions[1]}) /\ [][SlideNext]_vars

\* The position handleMovement proposes for the frame
proposed(p, deltaTime, keys) ==
    handleMovement(p, deltaTime, getMovementInput(keys), defaultCamera,
                   HasMovementInput(keys)).position

\* C32: when the proposed diagonal position collides with a box, the
\* player does not end the frame at that position; and when the move
\* along x alone (or z alone) is free, the player ends at the position of
\* that move.
C32_SlidesAlongTheWall ==
    [][ \A deltaTime \in Frames, keys \in SlideKeySets :
          LET new == proposed(player, deltaTime, keys)
              old == player.position
          IN ( /\ SlideFrame(deltaTime, keys)
               /\ new.x # old.x
               /\ new.z # old.z
               /\ checkHorizontalCollision(new.x, new.z, old.y, 5, 20) )
             => /\ ~(player'.position.x = new.x /\ player'.position.z = new.z)
                /\ ( /\ ~checkHorizontalCollision(new.x, old.z, old.y, 5, 20)
                     /\ checkHorizontalCollision(old.x, new.z, old.y, 5, 20) )
                   => (player'.position.x = new.x /\ player'.position.z = old.z)
                /\ ( /\ checkHorizontalCollision(new.x, old.z, old.y, 5, 20)
                     /\ ~checkHorizontalCollision(old.x, new.z, old.y, 5, 20) )
                   => (player'.position.x = old.x /\ player'.position.z = new.z) ]_vars

-----------------------------------------------------------------------------
(* The grounded flag and the ground *)

\* groundHeight of Player.applyPhysics at the player's place
groundHeightAt(p, seed) ==
    Max(TerrainGetHeightAt(seed, p.position.x, p.position.z),
        CollisionGetHeightAt(p.position.x, p.position.z, 5, p.position.y))

\* The height difference applyPhysics treats as a cliff, 3.0 units
cliffThreshold == 30

\* handleMovement applies the jump impulse in this Player.update
jumpApplied(p, deltaTime, keys, en) ==
    LET stepped == steppedBeforeInput(p, deltaTime, en)
    IN /\ p.model
       /\ ~HasMovementInput(keys)
       /\ stepped.attackState \in {"idle", "moving_to_target"}
       /\ getMovementInput(keys).up > 0
       /\ stepped.isOnGround

\* C33: a jump impulse is applied only to a player that rests on the
\* ground, that is, whose height is within the cliff threshold of the
\* ground height at its place; none is applied to a player in the air.
C33_JumpOnlyFromTheGround ==
    [][ \A deltaTime \in JumpFrames, keys \in JumpKeySets :
          ( /\ JumpFrame(deltaTime, keys)
            /\ jumpApplied(player, deltaTime, keys, enemies) )
          => Abs(player.position.y - groundHeightAt(player, terrainSeed)) < cliffThreshold ]_vars

\* C34: after every Player.update the player is not below the ground
\* height (the greater of the terrain height and the landing height of
\* the boxes) at its new place; and a player that ends an update with
\* isOnGround newly set has been put exactly at that height with no
\* vertical velocity.
C34_NeverBelowTheGround ==
    [][ \A deltaTime \in Frames, keys \in KeySets :
          SceneManagerUpdate(deltaTime, keys)
          => /\ player'.position.y >= groundHeightAt(player', terrainSeed)
             /\ (~player.isOnGround /\ player'.isOnGround)
                  => /\ player'.position.y = groundHeightAt(player', terrainSeed)
                     /\ player'.velocityY = 0 ]_vars

-----------------------------------------------------------------------------
(* The hop of the slime (entities/Slime.ts) *)

\* hopInterval, 2 s, and the time after which updateFallbackHop stops, 0.5 s
hopInterval == 20
fallbackHopTime == 5

\* The accumulated time up to which the runs follow a hop that no timeout
\* has ended yet
MaxHopTimer == 50

\* Math.max(0, Math.sin(hopTimer * bounceSpeed) * bounceHeight) of
\* updateFallbackHop, in hundredths of a unit, for a hop timer in tenths
\* of a second: 0.3 * sin(0.4 t), which is positive up to t = 7 and
\* negative from t = 8 to t = 15
bounce(hopTimer) ==
    CASE hopTimer = 0 -> 0
      [] hopTimer = 1 -> 12
      [] hopTimer = 2 -> 22
      [] hopTimer = 3 -> 28
      [] hopTimer = 4 -> 30
      [] hopTimer = 5 -> 27
      [] hopTimer = 6 -> 20
      [] hopTimer = 7 -> 10
      [] OTHER -> 0

\* The hop fields of a slime after its construction and initialize():
\* hasHop tells whether animations.hop exists, modelRaise is
\* model.position.y - position.y, hopTimeout whether the setTimeout of
\* startHop is pending
newHop(hasHop) ==
    [hopTimer |-> 0, isHopping |-> FALSE, hasHop |-> hasHop, isAlive |-> TRUE,
     modelRaise |-> 0, hopTimeout |-> FALSE]

\* Slime.startHop
hopStarts(h) ==
    LET started == [h EXCEPT !.isHopping = TRUE, !.hopTimer = 0]
    IN IF h.hasHop
       THEN [started EXCEPT !.hopTimeout = TRUE]
       ELSE [started EXCEPT !.isHopping = FALSE]

\* Slime.updateFallbackHop
updateFallbackHop(h) ==
    LET raised == [h EXCEPT !.modelRaise = bounce(h.hopTimer)]
    IN IF h.hopTimer > fallbackHopTime
       THEN [raised EXCEPT !.isHopping = FALSE, !.modelRaise = 0]
       ELSE raised

\* Slime.update
hopUpdate(h, deltaTime) ==
    IF ~h.isAlive THEN h
    ELSE LET timed == [h EXCEPT !.hopTimer = @ + deltaTime]
             hopped == IF ~timed.isHopping /\ timed.hopTimer >= hopInterval
                       THEN hopStarts(timed) ELSE timed
         IN IF hopped.isHopping /\ ~hopped.hasHop
            THEN updateFallbackHop(hopped)
            ELSE hopped

\* Slime.die, for the hop fields
hopDies(h) == [h EXCEPT !.isAlive = FALSE, !.isHopping = FALSE, !.hopTimer = 0]

HopInit ==
    /\ terrainSeed \in 0..MaxSeed
    /\ player = newPlayer
    /\ enemies = << >>
    /\ lastReturn = "none"
    /\ visit = [signals |-> 0, hits |-> << >>, count |-> 0]
    /\ clicked = slimePositions[1]
    /\ selectedEnemy = 0
    /\ removed = << >>
    /\ lastCall = Null
    /\ sample \in {newHop(hasHop) : hasHop \in BOOLEAN}
    /\ input = newInput

notHop == <<terrainSeed, player, enemies, lastReturn, visit, clicked,
            selectedEnemy, removed, lastCall, input>>

\* slime.update(deltaTime)
HopUpdate(deltaTime) ==
    /\ sample.hopTimer + deltaTime <= MaxHopTimer
    /\ sample' = hopUpdate(sample, deltaTime)
    /\ UNCHANGED notHop

\* The callback of the setTimeout of startHop, one second after the hop
HopTimeout ==
    /\ sample.hopTimeout
    /\ sample' = [sample EXCEPT !.isHopping = FALSE, !.hopTimeout = FALSE]
    /\ UNCHANGED notHop

\* The slime is killed
HopDies ==
    /\ sample.isAlive
    /\ sample' = hopDies(sample)
    /\ UNCHANGED notHop

HopNext ==
    \/ \E deltaTime \in Frames : HopUpdate(deltaTime)
    \/ HopTimeout
    \/ HopDies

\* The game loop updates the slime in every frame, and a pending timeout
\* fires
SpecHop ==
    /\ HopInit
    /\ [][HopNext]_vars
    /\ WF_vars(\E deltaTime \in Frames : HopUpdate(deltaTime))
    /\ WF_vars(HopTimeout)

\* A live slime without a hop animation
FallbackSlimeAlive == sample.isAlive /\ ~sample.hasHop

\* The model stands above the slime's position, or the slime has died
RaisedOrDead == sample.modelRaise > 0 \/ ~sample.isAlive

\* C35: a live slime without a hop animation, updated frame after frame,
\* comes to a frame that leaves its model raised above its position by
\* the bounce (unless it dies before).
C35_FallbackSlimeBobs == FallbackSlimeAlive ~> RaisedOrDead

-----------------------------------------------------------------------------
(* The enemy registry: EnemyManager.addEnemy, removeEnemy and update *)

\* How many enemy objects are ever spawned
MaxSpawned == 3

\* The identities of the enemy objects that may be spawned
RegistryIds == 1..MaxSpawned

\* The identities of a sequence of enemy objects, in its order
idsOf(objects) == [k \in 1..Len(objects) |-> objects[k].id]

\* EnemyManager.addEnemy(enemy): this.enemies.push(enemy)
addEnemy(m, enemy) == [m EXCEPT !.enemies = Append(@, enemy)]

\* new EnemyManager(): no enemy is registered and none is selected
RegistryInit ==
    /\ terrainSeed = 0
    /\ player = newPlayer
    /\ enemies = << >>
    /\ lastReturn = "none"
    /\ visit = [signals |-> 0, hits |-> << >>, count |-> 0]
    /\ clicked = slimePositions[1]
    /\ selectedEnemy = 0
    /\ removed = << >>
    /\ lastCall = Null
    /\ sample = Null
    /\ input = newInput

\* enemyManager.spawnSlime(position): a slime that has not been spawned
\* before is created, registered and initialized
SpawnSlime(id) ==
    /\ \A k \in 1..Len(enemies) : enemies[k].id # id
    /\ \A k \in 1..Len(removed) : removed[k].id # id
    /\ LET slime == withId(spawnSlime(slimePositions[((id - 1) % Len(slimePositions)) + 1],
                                     slimeAsset), id)
           after == addEnemy(theManager, slime)
       IN /\ enemies' = after.enemies
          /\ removed' = after.removed
          /\ selectedEnemy' = after.selectedEnemy
    /\ lastCall' = [op |-> "addEnemy", enemy |-> id, selectedBefore |-> selectedEnemy,
                    returned |-> 0]
    /\ UNCHANGED world

\* enemyManager.update(deltaTime), frame after frame: odd tells the
\* frames apart
RegistryUpdate(hopDue) ==
    /\ enemies' = EnemyManagerUpdate(enemies, hopDue)
    /\ lastCall' = [op |-> "update", enemy |-> 0, selectedBefore |-> selectedEnemy,
                    returned |-> 0,
                    odd |-> ~(lastCall # Null /\ lastCall.op = "update" /\ lastCall.odd)]
    /\ UNCHANGED <<world, selectedEnemy, removed>>

RegistryNext ==
    \/ \E id \in RegistryIds : SpawnSlime(id)
    \/ \E enemy \in RegistryIds : RemoveEnemy(enemy)
    \/ \E enemy \in RegistryIds \cup {0} : SelectEnemy(enemy)
    \/ \E k \in 1..Len(enemies) : Kill(k)
    \/ \E hopDue \in HopChoices(enemies) : RegistryUpdate(hopDue)

\* The world scene updates the manager in every frame
SpecRegistry ==
    /\ RegistryInit
    /\ [][RegistryNext]_vars
    /\ WF_vars(\E hopDue \in HopChoices(enemies) : RegistryUpdate(hopDue))

\* The sequence without the given identity
Without(ids, id) == SelectSeq(ids, LAMBDA other : other # id)

\* Every call keeps the order of the registry: addEnemy appends,
\* removeEnemy of a registered enemy takes it out, disposes of it and
\* clears the selection that was on it, removeEnemy of any other enemy
\* changes nothing, and no other call changes the registry
RegistryStep ==
    LET ids == idsOf(enemies)
        call == lastCall'
        registered == \E k \in 1..Len(enemies) : enemies[k].id = call.enemy
    IN /\ call.op = "addEnemy" => idsOf(enemies') = Append(ids, call.enemy)
       /\ (call.op = "removeEnemy" /\ registered) =>
             /\ idsOf(enemies') = Without(ids, call.enemy)
             /\ idsOf(removed') = Append(idsOf(removed), call.enemy)
             /\ selectedEnemy' = IF selectedEnemy = call.enemy THEN 0 ELSE selectedEnemy
       /\ (call.op = "removeEnemy" /\ ~registered) =>
             /\ enemies' = enemies
             /\ removed' = removed
             /\ selectedEnemy' = selectedEnemy
       /\ call.op \notin {"addEnemy", "removeEnemy"} =>
             /\ idsOf(enemies') = ids
             /\ idsOf(removed') = idsOf(removed)

\* No enemy is disposed of twice, and none that is disposed of is registered
DisposedOnce ==
    /\ \A j, k \in 1..Len(removed) : removed[j].id = removed[k].id => j = k
    /\ \A j \in 1..Len(removed), k \in 1..Len(enemies) : removed[j].id # enemies[k].id

\* A dead enemy is in the collection that getEnemies returns
DeadEnemyRegistered == \E k \in 1..Len(enemies) : ~enemies[k].isAlive

\* getEnemies returns live enemies only
OnlyLiveRegistered == \A k \in 1..Len(enemies) : enemies[k].isAlive

\* C36: the registry keeps the spawn order under addEnemy and
\* removeEnemy; removeEnemy of a registered enemy removes it, disposes of
\* it exactly once and clears the selection if it was selected, while
\* removeEnemy of an enemy that is not registered changes nothing; and a
\* dead enemy does not stay in the collection of getEnemies for ever:
\* with the manager updated frame after frame, the collection comes to
\* hold live enemies only.
C36_RegistryOfLiveEnemies ==
    /\ [][RegistryStep]_vars
    /\ []DisposedOnce
    /\ DeadEnemyRegistered ~> OnlyLiveRegistered

-----------------------------------------------------------------------------
(* Clicks along a ray: EnemyManager.handleClick and the dead enemies *)

\* The enemies whose models lie on the ray of a click, the nearest first
Rays == { << >> } \cup { <<a>> : a \in Ids }
        \cup { <<a, b>> : <<a, b>> \in { ab \in Ids \X Ids : ab[1] # ab[2] } }

\* raycaster.intersectObjects(enemyModels, true): the first enemy on the
\* ray among those whose models were given to the raycaster, 0 when the
\* ray meets none of them
firstHit(en, ray) ==
    LET met == {n \in 1..Len(ray) : ray[n] \in clickable(en)}
    IN IF met = {} THEN 0 ELSE ray[CHOOSE n \in met : \A other \in met : n <= other]

\* enemyManager.handleClick(event, camera, scene) for a click whose ray
\* passes through the given enemies
ClickAt(ray) ==
    LET hit == firstHit(enemies, ray)
        after == handleClick(theManager, hit)
    IN /\ enemies' = after.enemies
       /\ removed' = after.removed
       /\ selectedEnemy' = after.selectedEnemy
       /\ lastCall' = [op |-> "handleClick", enemy |-> hit, selectedBefore |-> selectedEnemy,
                       returned |-> handleClickReturns(theManager, hit), ray |-> ray]
       /\ UNCHANGED world

ClickNext ==
    \/ \E ray \in Rays : ClickAt(ray)
    \/ \E k \in 1..Len(enemies) : Kill(k)
    \/ \E enemy \in Ids : RemoveEnemy(enemy)

SpecClick == SelectionInit /\ [][ClickNext]_vars

\* Whether the enemy object is registered and dead
isDead(en, enemy) == \E k \in 1..Len(en) : en[k].id = enemy /\ ~en[k].isAlive

\* The ray without the dead enemies on it
withoutTheDead(en, ray) == SelectSeq(ray, LAMBDA enemy : ~isDead(en, enemy))

\* C37: handleClick never returns a dead enemy as an attack request and
\* never newly selects one; the dead enemies on the ray of a click do
\* not count, so that a click that meets dead enemies only (the selected
\* one included) deselects and returns null, as a click on empty space.
C37_DeadEnemiesAreNotClicked ==
    [][ lastCall'.op = "handleClick" =>
          LET call == lastCall'
              alone == handleClick(theManager, firstHit(enemies, withoutTheDead(enemies, call.ray)))
          IN /\ ~isDead(enemies, call.returned)
             /\ selectedEnemy' # selectedEnemy => ~isDead(enemies, selectedEnemy')
             /\ selectedEnemy' = alone.selectedEnemy
             /\ enemies' = alone.enemies
             /\ (withoutTheDead(enemies, call.ray) = << >>) =>
                   /\ call.returned = 0
                   /\ selectedEnemy' = 0
                   /\ \A k \in 1..Len(enemies') : ~enemies'[k].isSelected ]_vars

\* The selected enemy has died and is clicked again: the click has
\* deselected it and has asked for no attack
C37_DeadSelectedEnemyClicked ==
    /\ lastCall # Null
    /\ lastCall.op = "handleClick"
    /\ lastCall.ray = <<1>>
    /\ lastCall.selectedBefore = 1
    /\ lastCall.returned = 0
    /\ isDead(enemies, 1)
    /\ selectedEnemy = 0

-----------------------------------------------------------------------------
(* The attack state and the attack target *)

\* C38: in every reachable state the player's attack state is idle
\* exactly when it has no attack target, whatever startAttack, update,
\* cancelAttack and the scene's cancellation for a dead target have done.
C38_IdleIffNoTarget == (player.attackState = "idle") <=> (player.attackTarget = Null)

\* The player is idle without a target again after an attack that it
\* has carried out
C38_IdleAfterAnAttack ==
    /\ visit.count >= 1
    /\ player.attackState = "idle"
    /\ player.attackTarget = Null

-----------------------------------------------------------------------------
(* The grounded flag and the height above the ground *)

\* The grounded player stands within the cliff threshold of the ground
\* height at its place
GroundedNearTheGround ==
    player.isOnGround
    => Abs(player.position.y - groundHeightAt(player, terrainSeed)) < cliffThreshold

\* An update of a grounded player that ends at the cliff threshold or
\* farther from the ground height leaves the player not grounded
CliffClearsGrounded ==
    \A deltaTime \in Frames, keys \in KeySets :
      ( /\ SceneManagerUpdate(deltaTime, keys)
        /\ player.isOnGround
        /\ Abs(player'.position.y - groundHeightAt(player', terrainSeed)) >= cliffThreshold )
      => ~player'.isOnGround

\* C39: in every reachable state, the initial one included, a grounded
\* player (isOnGround) is within the cliff threshold, 3 units, of the
\* ground height at its (x, z); and an update of a grounded player that
\* ends with a height difference of 3 units or more leaves it not
\* grounded.
C39_GroundedWithinTheThreshold == []GroundedNearTheGround /\ [][CliffClearsGrounded]_vars

-----------------------------------------------------------------------------
(* The orbit camera: ThirdPersonCamera.update and setDistance.  Angles
   are in hundred-thousandths of a radian, the radius in thousandths of
   a unit, mouse movements in pixels, wheel deltas in wheel units.  The
   position of the camera, which updateCameraPosition derives from the
   spherical coordinates and the target, is not part of the model:
   neither update nor setDistance reads it to set the coordinates. *)

minDistance == 3000
maxDistance == 20000
minPolarAngle == 10000
\* Math.PI - 0.1
maxPolarAngle == 304159
\* 0.01 radians for a pixel
mouseSensitivity == 1000
\* 0.005 units for a wheel unit
zoomSensitivity == 5

\* How far the azimuth is followed, on either side of 0
MaxTheta == 200000

\* The mouse movements and wheel deltas of a frame, and the distances
\* that setDistance is called with
CameraMovements == {-400, 0, 50, 400}
CameraWheels == {-4000, 0, 1000, 4000}
CameraDistances == {0, 10000, 25000}

\* new ThirdPersonCamera(camera): new THREE.Spherical(8, Math.PI / 3, 0)
newCamera == [radius |-> 8000, phi |-> 104720, theta |-> 0, isRotating |-> FALSE]

\* ThirdPersonCamera.update without the clamp of the polar angle
cameraUpdateUnclamped(c, rightMousePressed, mouseMovement, wheelDelta) ==
    LET rotating == [c EXCEPT !.isRotating = rightMousePressed]
        turned == IF rotating.isRotating
                  THEN [rotating EXCEPT !.theta = @ - mouseMovement.x * mouseSensitivity,
                                        !.phi = @ - mouseMovement.y * mouseSensitivity]
                  ELSE rotating
    IN IF wheelDelta # 0
       THEN [turned EXCEPT !.radius =
               Max(minDistance, Min(maxDistance, @ + wheelDelta * zoomSensitivity))]
       ELSE turned

\* ThirdPersonCamera.update: the spherical coordinates and the rotating
\* flag after the call
cameraUpdate(c, rightMousePressed, mouseMovement, wheelDelta) ==
    LET rotating == IF rightMousePressed /\ ~c.isRotating
                    THEN [c EXCEPT !.isRotating = TRUE]
                    ELSE IF ~rightMousePressed /\ c.isRotating
                    THEN [c EXCEPT !.isRotating = FALSE]
                    ELSE c
        turned == IF rotating.isRotating
                  THEN [rotating EXCEPT
                          !.theta = @ - mouseMovement.x * mouseSensitivity,
                          !.phi = Max(minPolarAngle,
                                      Min(maxPolarAngle, @ - mouseMovement.y * mouseSensitivity))]
                  ELSE rotating
    IN IF wheelDelta # 0
       THEN [turned EXCEPT !.radius =
               Max(minDistance, Min(maxDistance, @ + wheelDelta * zoomSensitivity))]
       ELSE turned

\* ThirdPersonCamera.setDistance
setDistance(c, distance) ==
    [c EXCEPT !.radius = Max(minDistance, Min(maxDistance, distance))]

CameraInit ==
    /\ terrainSeed = 0
    /\ player = newPlayer
    /\ enemies = << >>
    /\ lastReturn = "none"
    /\ visit = [signals |-> 0, hits |-> << >>, count |-> 0]
    /\ clicked = slimePositions[1]
    /\ selectedEnemy = 0
    /\ removed = << >>
    /\ lastCall = Null
    /\ sample = newCamera
    /\ input = newInput

\* What a call on the camera leaves alone
notCamera == <<terrainSeed, player, enemies, lastReturn, visit, clicked,
               selectedEnemy, removed, input>>

\* thirdPersonCamera.update(deltaTime, inputManager, playerPosition, terrain)
CameraUpdate(rightMousePressed, mouseMovement, wheelDelta) ==
    LET after == cameraUpdate(sample, rightMousePressed, mouseMovement, wheelDelta)
    IN /\ Abs(after.theta) <= MaxTheta
       /\ sample' = after
       /\ lastCall' = [op |-> "update", rightMousePressed |-> rightMousePressed,
                       mouseMovement |-> mouseMovement, wheelDelta |-> wheelDelta,
                       distance |-> 0]
       /\ UNCHANGED notCamera

\* thirdPersonCamera.setDistance(distance)
SetDistance(distance) ==
    /\ sample' = setDistance(sample, distance)
    /\ lastCall' = [op |-> "setDistance", rightMousePressed |-> FALSE,
                    mouseMovement |-> [x |-> 0, y |-> 0], wheelDelta |-> 0,
                    distance |-> distance]
    /\ UNCHANGED notCamera

CameraNext ==
    \/ \E rightMousePressed \in BOOLEAN, x \in CameraMovements, y \in CameraMovements,
          wheelDelta \in CameraWheels :
          CameraUpdate(rightMousePressed, [x |-> x, y |-> y], wheelDelta)
    \/ \E distance \in CameraDistances : SetDistance(distance)

SpecCamera == CameraInit /\ [][CameraNext]_vars

\* The orbit radius and the polar angle are within their limits
WithinTheLimits ==
    /\ sample.radius >= minDistance
    /\ sample.radius <= maxDistance
    /\ sample.phi >= minPolarAngle
    /\ sample.phi <= maxPolarAngle

\* A call other than an update with the right mouse button pressed
\* leaves the azimuth and the polar angle as they were
TurnsOnlyWithTheRightButton ==
    ~(lastCall'.op = "update" /\ lastCall'.rightMousePressed)
    => /\ sample'.theta = sample.theta
       /\ sample'.phi = sample.phi

\* C40: after any sequence of update and setDistance calls, with any
\* mouse movements and wheel deltas, the orbit radius is within [3, 20]
\* and the polar angle within [0.1, pi - 0.1]; and the azimuth and the
\* polar angle change only in the frames in which the right mouse button
\* is pressed.
C40_CameraWithinItsLimits == []WithinTheLimits /\ [][TurnsOnlyWithTheRightButton]_vars

\* A frame with the right button pressed, the mouse moved far up and the
\* wheel turned far out has left the polar angle and the radius at their
\* upper limits
C40_ClampedAtTheUpperLimits ==
    /\ lastCall # Null
    /\ lastCall.op = "update"
    /\ lastCall.rightMousePressed
    /\ lastCall.mouseMovement.y = -400
    /\ lastCall.wheelDelta = 4000
    /\ sample.phi = maxPolarAngle
    /\ sample.radius = maxDistance
    /\ sample.theta # 0

=============================================================================
